---- MODULE Spec2Model ----
(***************************************************************************)
(* A model of the filter-evaluation and spam-detection engine of          *)
(* chrysanthemum: scoping (filter.rs), the message filter pipeline        *)
(* (message.rs), the spam thresholds and the concurrent spam history      *)
(* (filter.rs).                                                           *)
(*                                                                         *)
(* Option<T> is modelled as a set with at most one element: None is {},   *)
(* Some(x) is {x}.  Vec<T> is a sequence.  Result<(), E> is a record      *)
(* [ok |-> TRUE] or [ok |-> FALSE, ...].                                  *)
(***************************************************************************)
EXTENDS Integers, Sequences, FiniteSets, TLC

VARIABLES
    args,          \* the arguments of the pure function being applied (NoCall when idle)
    ret,           \* its return value
    guild_config,  \* the configuration of the community: filters, spam, defaults
    spam_history,  \* SpamHistory: author -> Option of the address of its queue
    queues,        \* the heap of queues: address -> [records, locked_by]
    rwlock,        \* the tokio RwLock around SpamHistory: [readers, writer, waiters]
    tasks,         \* task -> its position in filter_and_spam_check_message and its locals
    clock,         \* the wall clock the event loop reads with Utc::now, in seconds
    armed,         \* State::armed
    guild_cfgs,    \* State::guild_cfgs: guild -> GuildConfig
    cfgs_lock,     \* the tokio RwLock around guild_cfgs: [readers, writer, waiters]
    cmd_ids,       \* State::cmd_ids: guild -> Option of the command id
    handlers,      \* spawned handle_event task -> its position and its locals
    reload         \* the position and the locals of reload_guild_configs

pureVars == <<args, ret>>

engineVars == <<guild_config, spam_history, queues, rwlock, tasks>>

\* The state of the process around the engine (main.rs).
hostVars == <<clock, armed, guild_cfgs, cfgs_lock, cmd_ids, handlers, reload>>

vars == <<args, ret, guild_config, spam_history, queues, rwlock, tasks, clock, armed, guild_cfgs, cfgs_lock, cmd_ids, handlers, reload>>

----------------------------------------------------------------------------
(* Option and Vec helpers *)

None == {}

Some(x) == {x}

IsSome(o) == o # {}

Unwrap(o) == CHOOSE x \in o : TRUE

\* Option::or
OrElse(o, d) == IF IsSome(o) THEN o ELSE d

\* slice.contains / iter().any(|c| c == x)
Contains(seq, x) == \E i \in 1..Len(seq) : seq[i] = x

\* The increasing sequence of the elements of a finite set of integers.
RECURSIVE SetToSeq(_)
SetToSeq(S) ==
    IF S = {} THEN <<>>
    ELSE LET m == CHOOSE x \in S : \A y \in S : x <= y
         IN  <<m>> \o SetToSeq(S \ {m})

NoCall == [fn |-> "none"]

----------------------------------------------------------------------------
(* Bounds of the scoping inputs *)

MaxChannel == 2

MaxRole == 2

Channels == 1..MaxChannel

Roles == 1..MaxRole

ChannelLists == {SetToSeq(S) : S \in SUBSET Channels}

RoleLists == {SetToSeq(S) : S \in SUBSET Roles}

OptChannelLists == {None} \cup {Some(l) : l \in ChannelLists}

OptRoleLists == {None} \cup {Some(l) : l \in RoleLists}

\* config::Scoping
Scopings ==
    [include_channels : OptChannelLists,
     exclude_channels : OptChannelLists,
     exclude_roles : OptRoleLists]

----------------------------------------------------------------------------
(* Scoping::is_included, filter.rs *)

\* A variant that forgets the role check.
IsIncludedNoRoles(scoping, channel, author_roles) ==
    IF IsSome(scoping.include_channels)
       /\ \A i \in 1..Len(Unwrap(scoping.include_channels)) :
              Unwrap(scoping.include_channels)[i] # channel
    THEN FALSE
    ELSE IF IsSome(scoping.exclude_channels)
            /\ \E i \in 1..Len(Unwrap(scoping.exclude_channels)) :
                   Unwrap(scoping.exclude_channels)[i] = channel
    THEN FALSE
    ELSE TRUE

IsIncluded(scoping, channel, author_roles) ==
    IF IsSome(scoping.include_channels)
       /\ \A i \in 1..Len(Unwrap(scoping.include_channels)) :
              Unwrap(scoping.include_channels)[i] # channel
    THEN FALSE
    ELSE IF IsSome(scoping.exclude_channels)
            /\ \E i \in 1..Len(Unwrap(scoping.exclude_channels)) :
                   Unwrap(scoping.exclude_channels)[i] = channel
    THEN FALSE
    ELSE IF IsSome(scoping.exclude_roles)
            /\ \E i \in 1..Len(Unwrap(scoping.exclude_roles)) :
                   Contains(author_roles, Unwrap(scoping.exclude_roles)[i])
    THEN FALSE
    ELSE TRUE

----------------------------------------------------------------------------
(* Specification SpecScoping: is_included applied to every scoping, channel *)
(* and role list of the bounds.                                             *)

\* The number of concurrent tasks.
NumTasks == 3

Tasks == 1..NumTasks

\* The largest author id.
MaxAuthor == 2

Authors == 1..MaxAuthor

\* A task outside any call.
IdleTask == [pc |-> "idle"]

\* The engine before any event: an empty SpamHistory, an unlocked RwLock.
InitEngine ==
    /\ spam_history = [a \in Authors |-> None]
    /\ queues = <<>>
    /\ rwlock = [readers |-> {}, writer |-> None, waiters |-> <<>>]
    /\ tasks = [t \in Tasks |-> IdleTask]

\* The most spawned event handlers.
NumHandlers == 2

Handlers == 1..NumHandlers

MaxGuild == 2

Guilds == 1..MaxGuild

\* A guild configuration without any section.
EmptyGuildConfig ==
    [messages |-> None, reactions |-> None, spam |-> None, default_scoping |-> None,
     default_actions |-> None, include_bots |-> FALSE, slash_commands |-> None]

\* An RwLock nobody holds or waits for.
FreeLock == [readers |-> {}, writer |-> None, waiters |-> <<>>]

\* A handler task that has not been spawned, and the reload outside a run.
IdleHandler == [pc |-> "idle"]

IdleReload == [pc |-> "idle"]

\* The process before any event: disarmed, every guild without filters.
InitHost ==
    /\ clock = 0
    /\ armed = FALSE
    /\ guild_cfgs = [g \in Guilds |-> EmptyGuildConfig]
    /\ cfgs_lock = FreeLock
    /\ cmd_ids = [g \in Guilds |-> None]
    /\ handlers = [h \in Handlers |-> IdleHandler]
    /\ reload = IdleReload

\* A community without filters and without spam configuration.
EmptyConfig ==
    [messages |-> <<>>, spam |-> None, default_scoping |-> None,
     default_actions |-> None]

InitPure ==
    /\ args = NoCall
    /\ ret = NoCall
    /\ guild_config = EmptyConfig
    /\ InitEngine
    /\ InitHost

CallIsIncluded ==
    /\ args = NoCall
    /\ \E s \in Scopings, c \in Channels, r \in RoleLists :
          /\ args' = [fn |-> "is_included", scoping |-> s, channel |-> c,
                      author_roles |-> r]
          /\ ret' = [fn |-> "is_included", included |-> IsIncluded(s, c, r)]
    /\ UNCHANGED <<engineVars, hostVars>>

Return ==
    /\ args # NoCall
    /\ args' = NoCall
    /\ ret' = NoCall
    /\ UNCHANGED <<engineVars, hostVars>>

NextScoping == CallIsIncluded \/ Return

SpecScoping == InitPure /\ [][NextScoping]_vars

\* The elements of a Vec, as a set.
Range(seq) == {seq[i] : i \in 1..Len(seq)}

\* C5: is_included is true exactly when (include_channels is absent or
\* contains the channel) and (exclude_channels is absent or does not contain
\* the channel) and (exclude_roles is absent or shares no role with the
\* author's roles).
C5_IsIncludedExact ==
    args.fn = "is_included" =>
        (ret.included <=>
            /\ (args.scoping.include_channels = None
                \/ args.channel \in Range(Unwrap(args.scoping.include_channels)))
            /\ (args.scoping.exclude_channels = None
                \/ args.channel \notin Range(Unwrap(args.scoping.exclude_channels)))
            /\ (args.scoping.exclude_roles = None
                \/ Range(Unwrap(args.scoping.exclude_roles))
                       \cap Range(args.author_roles) = {}))

\* All three sets are present, the channel passes both channel checks and
\* the call is excluded by a shared role.
C5_Witness ==
    /\ args.fn = "is_included"
    /\ IsSome(args.scoping.include_channels)
    /\ IsSome(args.scoping.exclude_channels)
    /\ IsSome(args.scoping.exclude_roles)
    /\ args.channel \in Range(Unwrap(args.scoping.include_channels))
    /\ args.channel \notin Range(Unwrap(args.scoping.exclude_channels))
    /\ Range(Unwrap(args.scoping.exclude_roles)) \cap Range(args.author_roles) # {}
    /\ ret.included = FALSE

----------------------------------------------------------------------------
(* SpamRecord, SpamFilter and exceeds_spam_thresholds, filter.rs *)

\* u8::MAX: the counters of a SpamRecord and the window sums are u8.
U8Max == 255

\* u8::wrapping_add, the sum that u8::saturating_add is used to avoid.
WrappingAdd(a, b) == (a + b) % (U8Max + 1)

\* u8::saturating_add
SaturatingAdd(a, b) == IF a + b > U8Max THEN U8Max ELSE a + b

\* bool as u8
BoolAsU8(b) == IF b THEN 1 ELSE 0

\* struct SpamRecord
SpamRecord(content, emoji, links, attachments, spoilers, mentions, sent_at) ==
    [content |-> content, emoji |-> emoji, links |-> links,
     attachments |-> attachments, spoilers |-> spoilers, mentions |-> mentions,
     sent_at |-> sent_at]

\* struct SpamFilter
SpamFilter(emoji, links, attachments, spoilers, mentions, duplicates, interval, actions, scoping) ==
    [emoji |-> emoji, links |-> links, attachments |-> attachments,
     spoilers |-> spoilers, mentions |-> mentions, duplicates |-> duplicates,
     interval |-> interval, actions |-> actions, scoping |-> scoping]

\* The closure of the fold of exceeds_spam_thresholds: one record of the
\* history is added to the accumulator.
AddRecord(acc, record, current_record) ==
    [emoji |-> SaturatingAdd(acc.emoji, record.emoji),
     links |-> SaturatingAdd(acc.links, record.links),
     attachments |-> SaturatingAdd(acc.attachments, record.attachments),
     spoilers |-> SaturatingAdd(acc.spoilers, record.spoilers),
     mentions |-> SaturatingAdd(acc.mentions, record.mentions),
     duplicates |-> SaturatingAdd(acc.duplicates,
                       BoolAsU8(record.content = current_record.content))]

\* The fold of exceeds_spam_thresholds: the accumulator starts from the
\* current record, with 1 duplicate, and adds every record of the history
\* from the front.  A history of several records is folded in two halves,
\* the front half first and the back half from its accumulator, so that a
\* history of hundreds of records is evaluated without nesting as deep as
\* it is long; the comparison with the accumulator before makes the front
\* half be evaluated before the back half is entered.
RECURSIVE FoldSums(_, _, _)
FoldSums(history, current_record, acc) ==
    IF history = <<>> THEN acc
    ELSE IF Len(history) = 1 THEN AddRecord(acc, history[1], current_record)
    ELSE LET middle == Len(history) \div 2
             front == FoldSums(SubSeq(history, 1, middle), current_record, acc)
         IN  IF front = acc
             THEN FoldSums(SubSeq(history, middle + 1, Len(history)), current_record, acc)
             ELSE FoldSums(SubSeq(history, middle + 1, Len(history)), current_record, front)

SpamSums(history, current_record) ==
    FoldSums(history, current_record,
        [emoji |-> current_record.emoji,
         links |-> current_record.links,
         attachments |-> current_record.attachments,
         spoilers |-> current_record.spoilers,
         mentions |-> current_record.mentions,
         duplicates |-> 1])

Ok == [ok |-> TRUE]

Err(reason) == [ok |-> FALSE, reason |-> reason]

\* A variant that forgets to require a contribution of the current record.
ThresholdVerdictNoOwnCount(sums, current_record, config) ==
    IF IsSome(config.emoji) /\ sums.emoji > Unwrap(config.emoji)
    THEN Err(<<"sent too many emoji">>)
    ELSE IF IsSome(config.links) /\ sums.links > Unwrap(config.links)
    THEN Err(<<"sent too many links">>)
    ELSE IF IsSome(config.attachments) /\ sums.attachments > Unwrap(config.attachments)
    THEN Err(<<"sent too many attachments">>)
    ELSE IF IsSome(config.spoilers) /\ sums.spoilers > Unwrap(config.spoilers)
    THEN Err(<<"sent too many spoilers">>)
    ELSE IF IsSome(config.mentions) /\ sums.mentions > Unwrap(config.mentions)
    THEN Err(<<"sent too many mentions">>)
    ELSE IF IsSome(config.duplicates) /\ sums.duplicates > Unwrap(config.duplicates)
    THEN Err(<<"sent too many duplicate messages">>)
    ELSE Ok

\* A variant that tests the duplicates before the five metrics.
ThresholdVerdictDuplicatesFirst(sums, current_record, config) ==
    IF IsSome(config.duplicates) /\ sums.duplicates > Unwrap(config.duplicates)
    THEN Err(<<"sent too many duplicate messages">>)
    ELSE IF IsSome(config.emoji) /\ sums.emoji > Unwrap(config.emoji)
       /\ current_record.emoji > 0
    THEN Err(<<"sent too many emoji">>)
    ELSE IF IsSome(config.links) /\ sums.links > Unwrap(config.links)
            /\ current_record.links > 0
    THEN Err(<<"sent too many links">>)
    ELSE IF IsSome(config.attachments) /\ sums.attachments > Unwrap(config.attachments)
            /\ current_record.attachments > 0
    THEN Err(<<"sent too many attachments">>)
    ELSE IF IsSome(config.spoilers) /\ sums.spoilers > Unwrap(config.spoilers)
            /\ current_record.spoilers > 0
    THEN Err(<<"sent too many spoilers">>)
    ELSE IF IsSome(config.mentions) /\ sums.mentions > Unwrap(config.mentions)
            /\ current_record.mentions > 0
    THEN Err(<<"sent too many mentions">>)
    ELSE Ok

\* The if-chain of exceeds_spam_thresholds over the folded sums.
ThresholdVerdict(sums, current_record, config) ==
    IF IsSome(config.emoji) /\ sums.emoji > Unwrap(config.emoji)
       /\ current_record.emoji > 0
    THEN Err(<<"sent too many emoji">>)
    ELSE IF IsSome(config.links) /\ sums.links > Unwrap(config.links)
            /\ current_record.links > 0
    THEN Err(<<"sent too many links">>)
    ELSE IF IsSome(config.attachments) /\ sums.attachments > Unwrap(config.attachments)
            /\ current_record.attachments > 0
    THEN Err(<<"sent too many attachments">>)
    ELSE IF IsSome(config.spoilers) /\ sums.spoilers > Unwrap(config.spoilers)
            /\ current_record.spoilers > 0
    THEN Err(<<"sent too many spoilers">>)
    ELSE IF IsSome(config.mentions) /\ sums.mentions > Unwrap(config.mentions)
            /\ current_record.mentions > 0
    THEN Err(<<"sent too many mentions">>)
    ELSE IF IsSome(config.duplicates) /\ sums.duplicates > Unwrap(config.duplicates)
    THEN Err(<<"sent too many duplicate messages">>)
    ELSE Ok

ExceedsSpamThresholds(history, current_record, config) ==
    ThresholdVerdict(SpamSums(history, current_record), current_record, config)

----------------------------------------------------------------------------
(* Specification SpecThresholds: exceeds_spam_thresholds applied to bounded *)
(* histories, records and threshold configurations.                         *)

\* The longest history of a call.
MaxHist == 2

\* The value of a configured threshold.
Thr == 1

\* The non-zero count of a metric in one record.
Cnt == 1

Counts == {0, Cnt}

Contents == {"x", "y"}

\* The record of the message under evaluation: every combination of the
\* five metrics being zero or not, and two contents.
CurrentRecords ==
    {SpamRecord(c, e, l, a, s, m, 0) :
        c \in Contents, e \in Counts, l \in Counts, a \in Counts,
        s \in Counts, m \in Counts}

\* The records of a history.
HistoryRecords ==
    {SpamRecord("x", Cnt, Cnt, Cnt, Cnt, Cnt, 0),
     SpamRecord("y", Cnt, 0, Cnt, 0, Cnt, 0),
     SpamRecord("x", 0, Cnt, 0, Cnt, 0, 0),
     SpamRecord("y", 0, 0, 0, 0, 0, 0)}

RECURSIVE SeqsUpTo(_, _)
SeqsUpTo(S, n) ==
    IF n = 0 THEN {<<>>}
    ELSE LET shorter == SeqsUpTo(S, n - 1)
         IN  shorter \cup {Append(h, r) : h \in shorter, r \in S}

Histories == SeqsUpTo(HistoryRecords, MaxHist)

OptThr == {None, Some(Thr)}

ThresholdConfigs ==
    {SpamFilter(e, l, a, s, m, d, 30, None, None) :
        e \in OptThr, l \in OptThr, a \in OptThr,
        s \in OptThr, m \in OptThr, d \in OptThr}

CallExceedsSpamThresholds ==
    /\ args = NoCall
    /\ \E h \in Histories, r \in CurrentRecords, c \in ThresholdConfigs :
          /\ args' = [fn |-> "exceeds_spam_thresholds", history |-> h,
                      current_record |-> r, config |-> c]
          /\ ret' = ExceedsSpamThresholds(h, r, c)
    /\ UNCHANGED <<engineVars, hostVars>>

NextThresholds == CallExceedsSpamThresholds \/ Return

SpecThresholds == InitPure /\ [][NextThresholds]_vars

Metrics == {"emoji", "links", "attachments", "spoilers", "mentions"}

ReasonOf ==
    [emoji |-> <<"sent too many emoji">>,
     links |-> <<"sent too many links">>,
     attachments |-> <<"sent too many attachments">>,
     spoilers |-> <<"sent too many spoilers">>,
     mentions |-> <<"sent too many mentions">>,
     duplicates |-> <<"sent too many duplicate messages">>]

\* The exact sum of a metric over a history.
RECURSIVE ExactSum(_, _)
ExactSum(history, metric) ==
    IF history = <<>> THEN 0
    ELSE IF Len(history) = 1 THEN history[1][metric]
    ELSE LET middle == Len(history) \div 2
         IN  ExactSum(SubSeq(history, 1, middle), metric)
                 + ExactSum(SubSeq(history, middle + 1, Len(history)), metric)

\* The window sum of a metric: the retained records plus the current one.
WindowSum(metric) ==
    LET exact == args.current_record[metric] + ExactSum(args.history, metric)
    IN  IF exact > U8Max THEN U8Max ELSE exact

\* The duplicate count: the current record and the records of the history
\* with its content.
DuplicateCount ==
    LET exact == 1 + Cardinality({i \in 1..Len(args.history) :
                        args.history[i].content = args.current_record.content})
    IN  IF exact > U8Max THEN U8Max ELSE exact

MetricViolated(metric) ==
    /\ IsSome(args.config[metric])
    /\ WindowSum(metric) > Unwrap(args.config[metric])
    /\ args.current_record[metric] > 0

DuplicatesViolated ==
    /\ IsSome(args.config.duplicates)
    /\ DuplicateCount > Unwrap(args.config.duplicates)

\* C9: a violation of one of the five metric thresholds is reported only
\* when the threshold is configured, the window sum is strictly greater and
\* the current record's own count is non-zero; the duplicates threshold is
\* violated whenever the duplicate count is strictly greater, whatever the
\* current record contains.
C9_ViolationConditions ==
    args.fn = "exceeds_spam_thresholds" =>
        /\ \A metric \in Metrics :
              (~ret.ok /\ ret.reason = ReasonOf[metric]) => MetricViolated(metric)
        /\ (~ret.ok /\ ret.reason = ReasonOf.duplicates) => DuplicatesViolated
        /\ DuplicatesViolated => ~ret.ok

\* A configured emoji threshold is exceeded by the window sum, the current
\* record has no emoji, and the call does not report emoji.
C9_Witness ==
    /\ args.fn = "exceeds_spam_thresholds"
    /\ IsSome(args.config.emoji)
    /\ WindowSum("emoji") > Unwrap(args.config.emoji)
    /\ args.current_record.emoji = 0
    /\ ret.ok

Priority == <<"emoji", "links", "attachments", "spoilers", "mentions", "duplicates">>

Violated(k) ==
    IF Priority[k] = "duplicates" THEN DuplicatesViolated
    ELSE MetricViolated(Priority[k])

\* C10: the failure reason is that of the first violated threshold in the
\* order emoji, links, attachments, spoilers, mentions, duplicates, and the
\* call passes when none is violated.
C10_FirstViolatedWins ==
    args.fn = "exceeds_spam_thresholds" =>
        IF \E k \in 1..Len(Priority) : Violated(k)
        THEN LET first == CHOOSE k \in 1..Len(Priority) :
                              Violated(k) /\ \A j \in 1..(k - 1) : ~Violated(j)
             IN  ~ret.ok /\ ret.reason = ReasonOf[Priority[first]]
        ELSE ret.ok

\* Links, mentions and duplicates are violated together (emoji is not) and
\* links is reported.
C10_Witness ==
    /\ args.fn = "exceeds_spam_thresholds"
    /\ ~MetricViolated("emoji")
    /\ MetricViolated("links")
    /\ MetricViolated("mentions")
    /\ DuplicatesViolated
    /\ ~ret.ok
    /\ ret.reason = <<"sent too many links">>

----------------------------------------------------------------------------
(* Text.  A string is a sequence of atoms; an atom is one character, named *)
(* by a TLA+ string: an ASCII character by itself, another character by    *)
(* its code point ("U0251" is LATIN SMALL LETTER ALPHA, "U0060" the        *)
(* backtick); a fixed phrase of a reason ("sent too many emoji") and a     *)
(* template token ("$USER_ID") are kept as one atom each.                  *)

Str(atoms) == atoms

\* A variant of the table in which a replacement is itself a mapped code
\* point.
ConfusablesChained ==
    [U03C1 |-> Str(<<"p">>), U0251 |-> Str(<<"U03C1">>), U0263 |-> Str(<<"y">>)]

\* The confusable table: code point -> replacement string.  The entries are
\* those of test_skeletonize: U+03C1 -> p, U+0251 -> a, U+0263 -> y.
Confusables ==
    [U03C1 |-> Str(<<"p">>), U0251 |-> Str(<<"a">>), U0263 |-> Str(<<"y">>)]

IsConfusable(char) == char \in DOMAIN Confusables

\* A variant of the loop that keeps the whole input, not only the prefix
\* before the first confusable character, when it starts to copy.
RECURSIVE SkeletonizeFromWholeInput(_, _, _, _)
SkeletonizeFromWholeInput(str, index, owned, result) ==
    IF index > Len(str) THEN [owned |-> owned, str |-> result]
    ELSE LET char == str[index]
         IN  IF ~owned /\ ~IsConfusable(char)
             THEN SkeletonizeFromWholeInput(str, index + 1, FALSE, result)
             ELSE IF IsConfusable(char)
             THEN SkeletonizeFromWholeInput(str, index + 1, TRUE,
                                            result \o Confusables[char])
             ELSE SkeletonizeFromWholeInput(str, index + 1, TRUE, Append(result, char))

\* skeletonize: the loop over char_indices.  `owned` is FALSE while the
\* result is still Cow::Borrowed(str); at the first confusable character the
\* result becomes the prefix before it, and from then on every character is
\* pushed, mapped or not.
RECURSIVE SkeletonizeFrom(_, _, _, _)
SkeletonizeFrom(str, index, owned, result) ==
    IF index > Len(str) THEN [owned |-> owned, str |-> result]
    ELSE LET char == str[index]
         IN  IF ~owned /\ ~IsConfusable(char)
             THEN SkeletonizeFrom(str, index + 1, FALSE, result)
             ELSE LET base == IF owned THEN result ELSE SubSeq(str, 1, index - 1)
                  IN  IF IsConfusable(char)
                      THEN SkeletonizeFrom(str, index + 1, TRUE,
                                           base \o Confusables[char])
                      ELSE SkeletonizeFrom(str, index + 1, TRUE,
                                           Append(base, char))

\* skeletonize(str): [owned, str], owned = FALSE for Cow::Borrowed.
SkeletonizeCow(str) == SkeletonizeFrom(str, 1, FALSE, str)

Skeletonize(str) == SkeletonizeCow(str).str

\* Unicode simple case folding, for case-insensitive regexes.
CaseFold(char) == IF char = "B" THEN "b" ELSE char

\* \w of the regex crate (Unicode-aware): the letters of the alphabet.
IsWordChar(char) ==
    char \in {"a", "b", "d", "k", "o", "p", "x", "y", "B", "U03C1", "U0251", "U0263"}

\* \b at byte position `pos` (between atom pos - 1 and atom pos).
WordBoundary(text, pos) ==
    LET before == pos > 1 /\ IsWordChar(text[pos - 1])
        after == pos <= Len(text) /\ IsWordChar(text[pos])
    IN  before # after

\* The literal `word` matches at `pos`, case-insensitively.
LiteralAt(text, pos, word) ==
    /\ pos + Len(word) - 1 <= Len(text)
    /\ \A k \in 1..Len(word) : CaseFold(text[pos + k - 1]) = CaseFold(word[k])

\* Regex \b(w1|w2|...)\b, case-insensitive, as deserialize_word_regex builds
\* it: captures(text).get(1), None without a match.  Leftmost match, first
\* alternative that matches there.
WordsCapture(words, text) ==
    LET Hit(pos, j) == /\ LiteralAt(text, pos, words[j])
                       /\ WordBoundary(text, pos)
                       /\ WordBoundary(text, pos + Len(words[j]))
        starts == {pos \in 1..Len(text) : \E j \in 1..Len(words) : Hit(pos, j)}
    IN  IF starts = {} THEN None
        ELSE LET pos == CHOOSE x \in starts : \A y \in starts : x <= y
                 alts == {j \in 1..Len(words) : Hit(pos, j)}
                 j == CHOOSE x \in alts : \A y \in alts : x <= y
             IN  Some(SubSeq(text, pos, pos + Len(words[j]) - 1))

\* MessageFilterRule::Words
WordsRule(words) == [type |-> "words", words |-> words]

\* MessageFilterRule::filter_text, the Words arm: the skeleton first, then
\* the raw text.
FilterText(rule, text) ==
    LET skeleton == Skeletonize(text)
    IN  IF IsSome(WordsCapture(rule.words, skeleton))
        THEN Err(Str(<<"contains word ", "U0060">>)
                 \o Unwrap(WordsCapture(rule.words, skeleton)) \o Str(<<"U0060">>))
        ELSE IF IsSome(WordsCapture(rule.words, text))
        THEN Err(Str(<<"contains word ", "U0060">>)
                 \o Unwrap(WordsCapture(rule.words, text)) \o Str(<<"U0060">>))
        ELSE Ok

\* config::FilterMode
AllowList == "allow"

DenyList == "deny"

\* A variant of filter_values that reports the last offending value.
FilterValuesLast(mode, context, values, filter_values) ==
    LET phrase == IF mode = AllowList THEN "contains unallowed " ELSE "contains denied "
        Offends(v) == IF mode = AllowList THEN ~Contains(filter_values, v)
                      ELSE Contains(filter_values, v)
        found == {i \in 1..Len(values) : Offends(values[i])}
    IN  IF found = {} THEN Ok
        ELSE LET i == CHOOSE x \in found : \A y \in found : y <= x
             IN  Err(Str(<<phrase, context, " ", "U0060", values[i], "U0060">>))

\* filter_values: values.find(...) is the first observed value that is not
\* in the list (AllowList) or is in it (DenyList); Ok without one.
FilterValues(mode, context, values, filter_values) ==
    LET phrase == IF mode = AllowList THEN "contains unallowed " ELSE "contains denied "
        Offends(v) == IF mode = AllowList THEN ~Contains(filter_values, v)
                      ELSE Contains(filter_values, v)
        found == {i \in 1..Len(values) : Offends(values[i])}
    IN  IF found = {} THEN Ok
        ELSE LET i == CHOOSE x \in found : \A y \in found : x <= y
             IN  Err(Str(<<phrase, context, " ", "U0060", values[i], "U0060">>))

\* MessageFilterRule::MimeType
MimeTypeRule(mode, types, allow_unknown) ==
    [type |-> "mime_type", mode |-> mode, types |-> types,
     allow_unknown |-> allow_unknown]

\* twilight's Attachment (the field the rule reads)
Attachment(content_type) == [content_type |-> content_type]

\* attachments.iter().filter_map(|a| a.content_type.as_deref())
RECURSIVE KnownTypes(_)
KnownTypes(attachments) ==
    IF attachments = <<>> THEN <<>>
    ELSE (IF IsSome(Head(attachments).content_type)
          THEN <<Unwrap(Head(attachments).content_type)>> ELSE <<>>)
         \o KnownTypes(Tail(attachments))

\* A variant of the MimeType arm that compares the list before it looks for
\* an attachment without a content type.
FilterMimeTypeListFirst(rule, message) ==
    LET listed == FilterValues(rule.mode, "content type",
                               KnownTypes(message.attachments), rule.types)
    IN  IF ~listed.ok THEN listed
        ELSE IF (\E i \in 1..Len(message.attachments) :
                    message.attachments[i].content_type = None)
                /\ ~rule.allow_unknown
        THEN Err(Str(<<"unknown content type for attachment">>))
        ELSE Ok

\* MessageFilterRule::filter_message, the MimeType arm.
FilterMimeType(rule, message) ==
    IF (\E i \in 1..Len(message.attachments) :
           message.attachments[i].content_type = None)
       /\ ~rule.allow_unknown
    THEN Err(Str(<<"unknown content type for attachment">>))
    ELSE FilterValues(rule.mode, "content type", KnownTypes(message.attachments),
                      rule.types)

\* MessageFilterRule::filter_message: the MimeType rule looks at the
\* attachments, the text rules go to filter_text with the content of the
\* message.
RuleFilterMessage(rule, message) ==
    IF rule.type = "mime_type" THEN FilterMimeType(rule, message)
    ELSE FilterText(rule, message.content)

\* A variant that evaluates every rule and keeps the last failure.
RECURSIVE FindLastErr(_, _)
FindLastErr(rules, message) ==
    IF rules = <<>> THEN Ok
    ELSE LET r == RuleFilterMessage(Head(rules), message)
             rest == FindLastErr(Tail(rules), message)
         IN  IF ~rest.ok THEN rest ELSE r

\* MessageFilter::filter_message: the result of the first rule that fails.
RECURSIVE FindFirstErr(_, _)
FindFirstErr(rules, message) ==
    IF rules = <<>> THEN Ok
    ELSE LET r == RuleFilterMessage(Head(rules), message)
         IN  IF ~r.ok THEN r ELSE FindFirstErr(Tail(rules), message)

FilterFilterMessage(filter, message) == FindFirstErr(filter.rules, message)

----------------------------------------------------------------------------
(* Strings as byte buffers, message.rs *)

\* The UTF-8 length of the atoms that are not ASCII text, and of the atoms
\* that stand for a run of ASCII text of the given length in a template.
MultiByte ==
    [U03C1 |-> 2, U0251 |-> 2, U0263 |-> 2, U0060 |-> 1, U2026 |-> 3,
     Text1960 |-> 1960, Text1981 |-> 1981, Text1983 |-> 1983, Text1990 |-> 1990]

ByteLen(atom) == IF atom \in DOMAIN MultiByte THEN MultiByte[atom] ELSE Len(atom)

\* str::len
RECURSIVE StrLen(_)
StrLen(str) == IF str = <<>> THEN 0 ELSE ByteLen(Head(str)) + StrLen(Tail(str))

\* str::replace(from, to): every occurrence of the token `from`.
RECURSIVE Replace(_, _, _)
Replace(str, from, to) ==
    IF str = <<>> THEN <<>>
    ELSE IF Head(str) = from THEN to \o Replace(Tail(str), from, to)
    ELSE <<Head(str)>> \o Replace(Tail(str), from, to)

\* str::replacen(from, to, 1): the first occurrence only.
RECURSIVE ReplaceFirst(_, _, _)
ReplaceFirst(str, from, to) ==
    IF str = <<>> THEN <<>>
    ELSE IF Head(str) = from THEN to \o Tail(str)
    ELSE <<Head(str)>> \o ReplaceFirst(Tail(str), from, to)

\* The longest prefix of `str` of at most `last_index` bytes: the slice
\* &content[0..last_index] after last_index has been moved down to a
\* character boundary.
RECURSIVE PrefixWithin(_, _)
PrefixWithin(str, last_index) ==
    IF str = <<>> \/ ByteLen(Head(str)) > last_index THEN <<>>
    ELSE <<Head(str)>> \o PrefixWithin(Tail(str), last_index - ByteLen(Head(str)))

MAX_CHARS == 2000

MESSAGE_PREVIEW == "$MESSAGE_PREVIEW"

ELLIPSIS == "U2026"

\* The outcome of a computation that may panic.
Panicked == [panicked |-> TRUE]

Done(value) == [panicked |-> FALSE, value |-> value]

\* format_message_preview.  usize subtraction below zero panics when the
\* build checks overflow and wraps to a value above every length otherwise;
\* a wrapped available_length truncates nothing, a wrapped last_index is
\* never a character boundary below the length of the content, so the loop
\* walks down to the end of the content's last character.
FormatMessagePreview(format_string, content, checks) ==
    IF Contains(format_string, MESSAGE_PREVIEW)
    THEN LET available_length == MAX_CHARS - StrLen(format_string) - ByteLen(MESSAGE_PREVIEW)
         IN  IF available_length < 0
             THEN IF checks THEN Panicked
                  ELSE Done(ReplaceFirst(format_string, MESSAGE_PREVIEW, content))
             ELSE IF StrLen(content) > available_length
             THEN LET last_index == available_length - ByteLen(ELLIPSIS)
                      truncated_content ==
                          IF last_index < 0
                          THEN Append(content, ELLIPSIS)
                          ELSE Append(PrefixWithin(content, last_index), ELLIPSIS)
                  IN  IF checks /\ (last_index < 0
                                    \/ StrLen(truncated_content) > available_length)
                      THEN Panicked
                      ELSE Done(ReplaceFirst(format_string, MESSAGE_PREVIEW,
                                             truncated_content))
             ELSE Done(ReplaceFirst(format_string, MESSAGE_PREVIEW, content))
    ELSE Done(format_string)

----------------------------------------------------------------------------
(* Actions, config.rs and message.rs *)

\* MessageFilterAction::Delete
Delete == [action |-> "delete"]

\* MessageFilterAction::SendMessage
SendMessage(channel_id, content, requires_armed) ==
    [action |-> "send_message", channel_id |-> channel_id, content |-> content,
     requires_armed |-> requires_armed]

\* MessageFilterAction::SendLog
SendLog(channel_id) == [action |-> "send_log", channel_id |-> channel_id]

\* Id::to_string: the decimal digits of the id, one atom.
IdToString(id) == Str(<<ToString(id)>>)

\* map_filter_action_to_action: the MessageAction of a template.
MapFilterActionToAction(filter_action, message, filter_name, filter_reason, context, checks) ==
    IF filter_action.action = "delete"
    THEN Done([action |-> "delete", message_id |-> message.id,
               channel_id |-> message.channel_id])
    ELSE IF filter_action.action = "send_log"
    THEN Done([action |-> "send_log", to |-> filter_action.channel_id,
               filter_name |-> filter_name,
               message_channel |-> message.channel_id,
               content |-> message.content,
               filter_reason |-> filter_reason,
               author |-> message.author_id,
               context |-> context])
    ELSE LET formatted1 == Replace(filter_action.content, "$USER_ID",
                                   IdToString(message.author_id))
             formatted2 == Replace(formatted1, "$FILTER_REASON", filter_reason)
             formatted3 == FormatMessagePreview(formatted2, message.content, checks)
         IN  IF formatted3.panicked THEN Panicked
             ELSE Done([action |-> "send_message", to |-> filter_action.channel_id,
                        content |-> formatted3.value,
                        requires_armed |-> filter_action.requires_armed])

\* actions.iter().map(map_filter_action_to_action).collect()
RECURSIVE MapActions(_, _, _, _, _, _)
MapActions(actions, message, filter_name, filter_reason, context, checks) ==
    IF actions = <<>> THEN Done(<<>>)
    ELSE LET first == MapFilterActionToAction(Head(actions), message, filter_name,
                                              filter_reason, context, checks)
             rest == MapActions(Tail(actions), message, filter_name, filter_reason,
                                context, checks)
         IN  IF first.panicked \/ rest.panicked THEN Panicked
             ELSE Done(<<first.value>> \o rest.value)

\* struct MessageFilterFailure, as the Err of a Result
Failure(filter_name, actions, context) ==
    [ok |-> FALSE, filter_name |-> filter_name, actions |-> actions,
     context |-> context]

\* struct MessageFilter
MessageFilter(name, rules, scoping, actions) ==
    [name |-> name, rules |-> rules, scoping |-> scoping, actions |-> actions]

\* struct MessageInfo (the fields the engine reads)
MessageInfo(id, author_id, channel_id, author_roles, content, attachments, timestamp) ==
    [id |-> id, author_id |-> author_id, channel_id |-> channel_id,
     author_roles |-> author_roles, content |-> content,
     attachments |-> attachments, timestamp |-> timestamp]

----------------------------------------------------------------------------
(* filter_message, message.rs *)

\* A variant that lets the community default win over the filter's scoping.
EffectiveScopingDefaultFirst(own, default_scoping) == OrElse(default_scoping, own)

\* filter.scoping.as_ref().or(default_scoping)
EffectiveScoping(own, default_scoping) == OrElse(own, default_scoping)

\* A variant that lets the community default win over the filter's actions.
EffectiveActionsDefaultFirst(own, default_actions) == OrElse(default_actions, own)

\* filter.actions.as_deref().or(default_actions)
EffectiveActions(own, default_actions) == OrElse(own, default_actions)

\* The gate of one filter (or of the spam stage): skipped when a scoping
\* applies and excludes the message.
InScope(own, default_scoping, message) ==
    LET scoping == EffectiveScoping(own, default_scoping)
    IN  IsSome(scoping) =>
            IsIncluded(Unwrap(scoping), message.channel_id, message.author_roles)

\* The failure filter_message returns for `filter` failing with `reason`.
FilterFailure(filter, reason, default_actions, message, context, checks) ==
    LET actions == EffectiveActions(filter.actions, default_actions)
    IN  IF IsSome(actions)
        THEN LET mapped == MapActions(Unwrap(actions), message, filter.name, reason,
                                      context, checks)
             IN  IF mapped.panicked THEN Panicked
                 ELSE Done(Failure(filter.name, mapped.value, context))
        ELSE Done(Failure(filter.name, <<>>, context))

\* A variant of the loop that keeps going after a failure, so that the last
\* failing filter decides.
RECURSIVE FilterMessageLastWins(_, _, _, _, _, _)
FilterMessageLastWins(filters, default_scoping, default_actions, message, context, checks) ==
    IF filters = <<>> THEN Done(Ok)
    ELSE LET filter == Head(filters)
             rest == FilterMessageLastWins(Tail(filters), default_scoping,
                                           default_actions, message, context, checks)
             result == FilterFilterMessage(filter, message)
         IN  IF ~InScope(filter.scoping, default_scoping, message) THEN rest
             ELSE IF ~rest.panicked /\ ~rest.value.ok THEN rest
             ELSE IF ~result.ok
             THEN FilterFailure(filter, result.reason, default_actions, message,
                                context, checks)
             ELSE rest

\* filter_message: the loop over the filters, from the first.
RECURSIVE FilterMessage(_, _, _, _, _, _)
FilterMessage(filters, default_scoping, default_actions, message, context, checks) ==
    IF filters = <<>> THEN Done(Ok)
    ELSE LET filter == Head(filters)
             rest == FilterMessage(Tail(filters), default_scoping, default_actions,
                                   message, context, checks)
             result == FilterFilterMessage(filter, message)
         IN  IF ~InScope(filter.scoping, default_scoping, message) THEN rest
             ELSE IF ~result.ok
             THEN FilterFailure(filter, result.reason, default_actions, message,
                                context, checks)
             ELSE rest

----------------------------------------------------------------------------
(* Specification SpecFilter: filter_message applied to bounded filter      *)
(* lists, defaults and messages.                                           *)

\* The longest filter list.
MaxFilters == 2

FilterNames == <<"first", "second", "third", "fourth">>

WordBad == Str(<<"b", "a", "d">>)

WordOk == Str(<<"o", "k">>)

RuleLists == {<<WordsRule(<<WordBad>>)>>, <<WordsRule(<<WordBad, WordOk>>)>>}

ScopeChannel1 ==
    [include_channels |-> Some(<<1>>), exclude_channels |-> None, exclude_roles |-> None]

ScopeNotRole1 ==
    [include_channels |-> None, exclude_channels |-> None, exclude_roles |-> Some(<<1>>)]

FilterScopings == {None, Some(ScopeChannel1)}

DefaultScopings == {None, Some(ScopeChannel1), Some(ScopeNotRole1)}

LogChannel == 1

ReplyTemplate == Str(<<"$USER_ID", " ", "$FILTER_REASON", " ", "$MESSAGE_PREVIEW">>)

FilterActionLists ==
    {None,
     Some(<<SendLog(LogChannel), SendMessage(LogChannel, ReplyTemplate, FALSE)>>)}

DefaultActionLists ==
    {None,
     Some(<<Delete>>),
     Some(<<SendMessage(LogChannel, ReplyTemplate, TRUE), Delete>>),
     Some(<<Delete, SendLog(LogChannel), Delete>>)}

\* The filter lists of length n: the i-th filter is named FilterNames[i].
RECURSIVE FilterListsOfLen(_)
FilterListsOfLen(n) ==
    IF n = 0 THEN {<<>>}
    ELSE {Append(fs, MessageFilter(FilterNames[n], r, s, a)) :
             fs \in FilterListsOfLen(n - 1), r \in RuleLists,
             s \in FilterScopings, a \in FilterActionLists}

FilterLists == UNION {FilterListsOfLen(n) : n \in 0..MaxFilters}

\* bad (fails every rule list), ok (fails the second rule list only), the
\* confusable spelling of bad, and a text no rule matches.
FilterContents ==
    {Str(<<"a", " ", "b", "a", "d">>),
     Str(<<"o", "k">>),
     Str(<<"B", "U0251", "d">>),
     Str(<<"b", "a", "d", "d">>)}

\* Where a message comes from: channel and author roles.
Origins == {<<1, <<>>>>, <<2, <<>>>>, <<1, <<1>>>>}

FilterMessages ==
    {MessageInfo(1, 3, o[1], o[2], c, <<>>, 0) : o \in Origins, c \in FilterContents}

CallFilterMessage ==
    /\ args = NoCall
    /\ \E fs \in FilterLists, ds \in DefaultScopings, da \in DefaultActionLists,
          m \in FilterMessages :
          /\ args' = [fn |-> "filter_message", filters |-> fs,
                      default_scoping |-> ds, default_actions |-> da,
                      message |-> m, context |-> "message create"]
          /\ ret' = FilterMessage(fs, ds, da, m, "message create", TRUE)
    /\ UNCHANGED <<engineVars, hostVars>>

NextFilter == CallFilterMessage \/ Return

SpecFilter == InitPure /\ [][NextFilter]_vars

\* The filter at index i is in scope for the message of the call: its own
\* scoping decides when present, otherwise the community default, and
\* without any scoping the filter is in scope.
Gated(i) ==
    LET own == args.filters[i].scoping
    IN  IF own # None
        THEN IsIncluded(Unwrap(own), args.message.channel_id, args.message.author_roles)
        ELSE IF args.default_scoping # None
        THEN IsIncluded(Unwrap(args.default_scoping), args.message.channel_id,
                        args.message.author_roles)
        ELSE TRUE

RulesFail(i) == ~FilterFilterMessage(args.filters[i], args.message).ok

\* The index of the filter the returned failure names.
Winner == CHOOSE i \in 1..Len(args.filters) : args.filters[i].name = ret.value.filter_name

\* The action templates the claim expects for the filter at index i.
TemplatesOf(i) ==
    IF args.filters[i].actions # None THEN Unwrap(args.filters[i].actions)
    ELSE IF args.default_actions # None THEN Unwrap(args.default_actions)
    ELSE <<>>

\* C1: filter_message returns the failure of the lowest-index filter that is
\* in scope and whose rules fail; the filter name and the actions are those
\* of that filter alone, whatever the later filters are.
C1_FirstFailingFilterWins ==
    args.fn = "filter_message" =>
        LET failing == {i \in 1..Len(args.filters) : Gated(i) /\ RulesFail(i)}
        IN  /\ ~ret.panicked
            /\ IF failing = {} THEN ret.value.ok
               ELSE LET w == CHOOSE i \in failing : \A j \in failing : i <= j
                        f == args.filters[w]
                        reason == FilterFilterMessage(f, args.message).reason
                    IN  /\ ~ret.value.ok
                        /\ ret.value.filter_name = f.name
                        /\ ret.value.actions =
                               MapActions(TemplatesOf(w), args.message, f.name,
                                          reason, args.context, TRUE).value

\* Two filters are in scope and fail, with different actions, and the
\* failure is that of the first.
C1_Witness ==
    /\ args.fn = "filter_message"
    /\ Len(args.filters) >= 2
    /\ Gated(1) /\ RulesFail(1)
    /\ Gated(2) /\ RulesFail(2)
    /\ TemplatesOf(1) # TemplatesOf(2)
    /\ TemplatesOf(1) # <<>>
    /\ ~ret.value.ok
    /\ ret.value.filter_name = "first"

\* C2: the scoping that gates a filter is its own when present, otherwise
\* the community default; filter_message fails exactly when some filter is
\* in scope under that rule and its rules fail, and the filter it names is
\* in scope under that rule; a filter without any scoping is always
\* evaluated.
C2_OwnScopingReplacesDefault ==
    args.fn = "filter_message" =>
        /\ ret.value.ok <=>
               \A i \in 1..Len(args.filters) : ~(Gated(i) /\ RulesFail(i))
        /\ ~ret.value.ok => Gated(Winner) /\ RulesFail(Winner)
        /\ \A i \in 1..Len(args.filters) :
               (args.filters[i].scoping = None /\ args.default_scoping = None
                /\ RulesFail(i)) => ~ret.value.ok

\* The winning filter's own scoping includes the message while the
\* community default excludes it.
C2_Witness ==
    /\ args.fn = "filter_message"
    /\ ~ret.value.ok
    /\ args.filters[Winner].scoping # None
    /\ args.default_scoping # None
    /\ IsIncluded(Unwrap(args.filters[Winner].scoping), args.message.channel_id,
                  args.message.author_roles)
    /\ ~IsIncluded(Unwrap(args.default_scoping), args.message.channel_id,
                   args.message.author_roles)

\* The concrete action binds the template to the message of the call.
BindsTemplate(action, template) ==
    /\ action.action = template.action
    /\ template.action = "delete" =>
           /\ action.message_id = args.message.id
           /\ action.channel_id = args.message.channel_id
    /\ template.action = "send_log" =>
           /\ action.to = template.channel_id
           /\ action.filter_name = ret.value.filter_name
           /\ action.author = args.message.author_id
    /\ template.action = "send_message" =>
           /\ action.to = template.channel_id
           /\ action.requires_armed = template.requires_armed

\* C3: the actions of a failure are synthesized from the filter's own action
\* list when it has one, otherwise from the community default actions,
\* otherwise there are none: one concrete action per template, in order.
C3_OwnActionsReplaceDefault ==
    (args.fn = "filter_message" /\ ~ret.value.ok) =>
        LET templates == TemplatesOf(Winner)
        IN  /\ Len(ret.value.actions) = Len(templates)
            /\ \A k \in 1..Len(templates) :
                   BindsTemplate(ret.value.actions[k], templates[k])

\* The winning filter has its own actions, the community default actions
\* differ, and the two concrete actions are those of the filter.
C3_Witness ==
    /\ args.fn = "filter_message"
    /\ ~ret.value.ok
    /\ args.filters[Winner].actions # None
    /\ args.default_actions # None
    /\ args.default_actions # args.filters[Winner].actions
    /\ Len(ret.value.actions) = 2
    /\ ret.value.actions[1].action = "send_log"
    /\ ret.value.actions[2].action = "send_message"

\* The Delete actions of a concrete action list.
Deletes(actions) == {k \in 1..Len(actions) : actions[k].action = "delete"}

\* C13: the concrete action list synthesized for the winning filter holds at
\* most one Delete action.
C13_AtMostOneDelete ==
    (args.fn = "filter_message" /\ ~ret.value.ok) =>
        Cardinality(Deletes(ret.value.actions)) <= 1

----------------------------------------------------------------------------
(* SpamRecord::from_message and the pruning of check_spam_record, filter.rs *)

MicrosPerSecond == 1000000

\* Timestamp::as_micros; a Timestamp is held in seconds.
AsMicros(timestamp) == timestamp * MicrosPerSecond

\* The atoms the extraction regexes match: one emoji, one link, one spoiler
\* span, one mention.
EmojiAtoms == {"U1F600"}

LinkAtoms == {"https://example.com"}

SpoilerAtoms == {"||spoiler||"}

MentionAtoms == {"<@1>"}

\* regex.find_iter(content).count()
CountMatches(content, atoms) == Cardinality({i \in 1..Len(content) : content[i] \in atoms})

\* usize as u8
AsU8(n) == n % (U8Max + 1)

\* SpamRecord::from_message
SpamRecordFromMessage(message) ==
    SpamRecord(message.content,
               AsU8(CountMatches(message.content, EmojiAtoms)),
               AsU8(CountMatches(message.content, LinkAtoms)),
               AsU8(Len(message.attachments)),
               AsU8(CountMatches(message.content, SpoilerAtoms)),
               AsU8(CountMatches(message.content, MentionAtoms)),
               AsMicros(message.timestamp))

\* u64::saturating_sub
SaturatingSub(a, b) == IF a >= b THEN a - b ELSE 0

\* A variant that compares the age with >=.
IsExpiredInclusive(record, now, config) ==
    SaturatingSub(now, record.sent_at) >= config.interval * MicrosPerSecond

\* The test of the pruning loop on the front record.
IsExpired(record, now, config) ==
    SaturatingSub(now, record.sent_at) > config.interval * MicrosPerSecond

\* The pruning loop: pop_front while the front record is expired.
RECURSIVE PruneFront(_, _, _)
PruneFront(history, now, config) ==
    IF history # <<>> /\ IsExpired(Head(history), now, config)
    THEN PruneFront(Tail(history), now, config)
    ELSE history

SPAM_FILTER_NAME == "Spam"

----------------------------------------------------------------------------
(* filter_and_spam_check_message, spam_check_message (message.rs) and       *)
(* check_spam_record (filter.rs), one action per step of a task.            *)

Author(t) == tasks[t].message.author_id

\* RwLock::read() / write(): the request joins the FIFO queue of the lock.
Enqueue(t, mode) == [rwlock EXCEPT !.waiters = Append(@, <<t, mode>>)]

\* A variant that runs the spam stage whatever filter_message returned.
CallSpamRegardless(t, message, now) ==
    /\ tasks[t].pc = "idle"
    /\ LET filtered == FilterMessage(guild_config.messages, guild_config.default_scoping,
                                     guild_config.default_actions, message,
                                     "message create", TRUE)
       IN  IF guild_config.spam = None
              \/ ~InScope(Unwrap(guild_config.spam).scoping,
                          guild_config.default_scoping, message)
           THEN /\ tasks' = [tasks EXCEPT ![t] =
                        [pc |-> "done", message |-> message, now |-> now,
                         result |-> filtered, spam_ran |-> FALSE]]
                /\ UNCHANGED rwlock
           ELSE /\ tasks' = [tasks EXCEPT ![t] =
                        [pc |-> "await_read", message |-> message, now |-> now,
                         new_spam_record |-> SpamRecordFromMessage(message)]]
                /\ rwlock' = Enqueue(t, "read")
    /\ UNCHANGED <<pureVars, hostVars, guild_config, spam_history, queues>>

\* filter_and_spam_check_message up to the first await: filter_message, then
\* the spam stage's gate, SpamRecord::from_message and spam_history.read().
Call(t, message, now) ==
    /\ tasks[t].pc = "idle"
    /\ LET filtered == FilterMessage(guild_config.messages, guild_config.default_scoping,
                                     guild_config.default_actions, message,
                                     "message create", TRUE)
           finished(result) ==
               [pc |-> "done", message |-> message, now |-> now, result |-> result,
                spam_ran |-> FALSE]
       IN  IF filtered.panicked \/ ~filtered.value.ok
           THEN /\ tasks' = [tasks EXCEPT ![t] = finished(filtered)]
                /\ UNCHANGED rwlock
           ELSE IF guild_config.spam = None
                   \/ ~InScope(Unwrap(guild_config.spam).scoping,
                               guild_config.default_scoping, message)
           THEN /\ tasks' = [tasks EXCEPT ![t] = finished(Done(Ok))]
                /\ UNCHANGED rwlock
           ELSE /\ tasks' = [tasks EXCEPT ![t] =
                        [pc |-> "await_read", message |-> message, now |-> now,
                         new_spam_record |-> SpamRecordFromMessage(message)]]
                /\ rwlock' = Enqueue(t, "read")
    /\ UNCHANGED <<pureVars, hostVars, guild_config, spam_history, queues>>

\* spam_history.read().await completes: the task is first in the queue and
\* no writer holds the lock.
AcquireRead(t) ==
    /\ tasks[t].pc = "await_read"
    /\ rwlock.waiters # <<>>
    /\ Head(rwlock.waiters) = <<t, "read">>
    /\ rwlock.writer = None
    /\ rwlock' = [rwlock EXCEPT !.waiters = Tail(@), !.readers = @ \cup {t}]
    /\ tasks' = [tasks EXCEPT ![t].pc = "reading"]
    /\ UNCHANGED <<pureVars, hostVars, guild_config, spam_history, queues>>

\* A variant of the lookup that keeps the read guard on a miss.
LookupKeepingReadGuard(t) ==
    /\ tasks[t].pc = "reading"
    /\ IF spam_history[Author(t)] = None
       THEN /\ tasks' = [tasks EXCEPT ![t].pc = "missed"]
            /\ UNCHANGED rwlock
       ELSE /\ tasks' = [tasks EXCEPT ![t] =
                    [@ EXCEPT !.pc = "have_queue"] @@
                    [author_spam_history |-> Unwrap(spam_history[Author(t)])]]
            /\ rwlock' = [rwlock EXCEPT !.readers = @ \ {t}]
    /\ UNCHANGED <<pureVars, hostVars, guild_config, spam_history, queues>>

\* A variant of the lookup that keeps the read guard on a hit, while the
\* queue is locked and checked.
LookupHoldingReadGuard(t) ==
    /\ tasks[t].pc = "reading"
    /\ IF spam_history[Author(t)] = None
       THEN /\ tasks' = [tasks EXCEPT ![t].pc = "missed"]
            /\ rwlock' = [rwlock EXCEPT !.readers = @ \ {t}]
       ELSE /\ tasks' = [tasks EXCEPT ![t] =
                    [@ EXCEPT !.pc = "have_queue"] @@
                    [author_spam_history |-> Unwrap(spam_history[Author(t)])]]
            /\ UNCHANGED rwlock
    /\ UNCHANGED <<pureVars, hostVars, guild_config, spam_history, queues>>

\* read_history.contains_key(author): on a miss the read guard is dropped;
\* on a hit the Arc of the queue is cloned and the guard is dropped at the
\* end of the block.
Lookup(t) ==
    /\ tasks[t].pc = "reading"
    /\ IF spam_history[Author(t)] = None
       THEN tasks' = [tasks EXCEPT ![t].pc = "missed"]
       ELSE tasks' = [tasks EXCEPT ![t] =
                [@ EXCEPT !.pc = "have_queue"] @@
                [author_spam_history |-> Unwrap(spam_history[Author(t)])]]
    /\ rwlock' = [rwlock EXCEPT !.readers = @ \ {t}]
    /\ UNCHANGED <<pureVars, hostVars, guild_config, spam_history, queues>>

\* An empty VecDeque behind a Mutex.
NewQueue == [records |-> <<>>, locked_by |-> None]

\* Arc::new(Mutex::new(VecDeque::new())), then spam_history.write().
RequestWrite(t) ==
    /\ tasks[t].pc = "missed"
    /\ queues' = Append(queues, NewQueue)
    /\ tasks' = [tasks EXCEPT ![t] =
            [@ EXCEPT !.pc = "await_write"] @@ [new_history |-> Len(queues) + 1]]
    /\ rwlock' = Enqueue(t, "write")
    /\ UNCHANGED <<pureVars, hostVars, guild_config, spam_history>>

\* spam_history.write().await completes: the task is first in the queue and
\* nobody holds the lock.
AcquireWrite(t) ==
    /\ tasks[t].pc = "await_write"
    /\ rwlock.waiters # <<>>
    /\ Head(rwlock.waiters) = <<t, "write">>
    /\ rwlock.writer = None
    /\ rwlock.readers = {}
    /\ rwlock' = [rwlock EXCEPT !.waiters = Tail(@), !.writer = Some(t)]
    /\ tasks' = [tasks EXCEPT ![t].pc = "writing"]
    /\ UNCHANGED <<pureVars, hostVars, guild_config, spam_history, queues>>

\* write_history.insert(author, new_history.clone()); the write guard is
\* dropped at the end of the block.
Insert(t) ==
    /\ tasks[t].pc = "writing"
    /\ spam_history' = [spam_history EXCEPT ![Author(t)] = Some(tasks[t].new_history)]
    /\ rwlock' = [rwlock EXCEPT !.writer = None]
    /\ tasks' = [tasks EXCEPT ![t] =
            [@ EXCEPT !.pc = "have_queue"] @@
            [author_spam_history |-> tasks[t].new_history]]
    /\ UNCHANGED <<pureVars, hostVars, guild_config, queues>>

\* author_spam_history.lock(): the Mutex of the queue is free.
LockQueue(t) ==
    /\ tasks[t].pc = "have_queue"
    /\ queues[tasks[t].author_spam_history].locked_by = None
    /\ queues' = [queues EXCEPT ![tasks[t].author_spam_history].locked_by = Some(t)]
    /\ tasks' = [tasks EXCEPT ![t].pc = "locked"]
    /\ UNCHANGED <<pureVars, hostVars, guild_config, spam_history, rwlock>>

\* The failure spam_check_message returns for a spam verdict.
SpamFailure(spam_config, reason, message) ==
    LET actions == EffectiveActions(spam_config.actions, guild_config.default_actions)
        mapped == MapActions(IF IsSome(actions) THEN Unwrap(actions) ELSE <<>>,
                             message, SPAM_FILTER_NAME, reason, "message create", TRUE)
    IN  IF mapped.panicked THEN Panicked
        ELSE Done(Failure(SPAM_FILTER_NAME, mapped.value, "message create"))

\* A variant that records the message only when the check passed.
CheckAndPushIfOk(t) ==
    /\ tasks[t].pc = "locked"
    /\ LET q == tasks[t].author_spam_history
           spam_config == Unwrap(guild_config.spam)
           retained == PruneFront(queues[q].records, tasks[t].now, spam_config)
           verdict == ExceedsSpamThresholds(retained, tasks[t].new_spam_record,
                                            spam_config)
       IN  /\ queues' = [queues EXCEPT ![q] =
                   [records |-> IF verdict.ok
                                THEN Append(retained, tasks[t].new_spam_record)
                                ELSE retained,
                    locked_by |-> None]]
           /\ tasks' = [tasks EXCEPT ![t] =
                   [@ EXCEPT !.pc = "done"] @@
                   [checked |-> retained, verdict |-> verdict, spam_ran |-> TRUE,
                    result |-> IF verdict.ok THEN Done(Ok)
                               ELSE SpamFailure(spam_config, verdict.reason,
                                                tasks[t].message)]]
    /\ UNCHANGED <<pureVars, hostVars, guild_config, spam_history, rwlock>>

\* Under the Mutex of the queue: the pruning loop, exceeds_spam_thresholds,
\* push_back; the guard is dropped on return, and spam_check_message turns
\* the verdict into its result.
CheckAndPush(t) ==
    /\ tasks[t].pc = "locked"
    /\ LET q == tasks[t].author_spam_history
           spam_config == Unwrap(guild_config.spam)
           retained == PruneFront(queues[q].records, tasks[t].now, spam_config)
           verdict == ExceedsSpamThresholds(retained, tasks[t].new_spam_record,
                                            spam_config)
       IN  /\ queues' = [queues EXCEPT ![q] =
                   [records |-> Append(retained, tasks[t].new_spam_record),
                    locked_by |-> None]]
           /\ tasks' = [tasks EXCEPT ![t] =
                   [@ EXCEPT !.pc = "done"] @@
                   [checked |-> retained, verdict |-> verdict, spam_ran |-> TRUE,
                    result |-> IF verdict.ok THEN Done(Ok)
                               ELSE SpamFailure(spam_config, verdict.reason,
                                                tasks[t].message)]]
    /\ UNCHANGED <<pureVars, hostVars, guild_config, spam_history, rwlock>>

\* The call has returned; the task takes the next event.
Finish(t) ==
    /\ tasks[t].pc = "done"
    /\ tasks' = [tasks EXCEPT ![t] = IdleTask]
    /\ UNCHANGED <<pureVars, hostVars, guild_config, spam_history, queues, rwlock>>

----------------------------------------------------------------------------
(* Specification SpecConc: NumTasks tasks, each handling one message of the *)
(* same author, not yet in the map, under every interleaving.  Every        *)
(* message is sent and checked at time 0, so no record is pruned.           *)

\* A spam configuration with a duplicates threshold only.
DuplicatesOnly(interval) ==
    SpamFilter(None, None, None, None, None, Some(1), interval, None, None)

ConcConfig ==
    [messages |-> <<>>, spam |-> Some(DuplicatesOnly(30)),
     default_scoping |-> None, default_actions |-> None]

ConcMessages == {MessageInfo(1, 1, 1, <<>>, Str(<<"x">>), <<>>, 0)}

InitConc ==
    /\ args = NoCall
    /\ ret = NoCall
    /\ guild_config = ConcConfig
    /\ InitEngine
    /\ InitHost

\* The steps of a task after its call has begun.
TaskStep(t) ==
    \/ AcquireRead(t)
    \/ Lookup(t)
    \/ RequestWrite(t)
    \/ AcquireWrite(t)
    \/ Insert(t)
    \/ LockQueue(t)
    \/ CheckAndPush(t)

NextConc ==
    \E t \in Tasks :
        \/ \E m \in ConcMessages : Call(t, m, 0)
        \/ TaskStep(t)

SpecConc == InitConc /\ [][NextConc]_vars

\* The tokio runtime runs every task that can make a step.
FairSpecConc == SpecConc /\ \A t \in Tasks : WF_vars(TaskStep(t))

AllDone == \A t \in Tasks : tasks[t].pc = "done"

\* The finished checks of author a.
Callers(a) == {t \in Tasks : tasks[t].pc = "done" /\ tasks[t].spam_ran /\ Author(t) = a}

\* The finished checks of author a whose record went to a queue that is not
\* the one the map holds.
Lost(a) == {t \in Callers(a) : Some(tasks[t].author_spam_history) # spam_history[a]}

\* C7: once all the concurrent calls for a previously unseen author have
\* finished, the queue stored in the map for that author holds all of their
\* records except at most one.
C7_AtMostOneLost ==
    AllDone => \A a \in Authors : Cardinality(Lost(a)) <= 1

\* All the tasks have checked a message of the same author and more than
\* one record is lost.
C7_Witness ==
    /\ AllDone
    /\ \E a \in Authors : Callers(a) = Tasks /\ Cardinality(Lost(a)) >= 2

\* No task asks for, or holds, the exclusive lock while it holds the shared
\* lock.
NoEscalation ==
    \A t \in rwlock.readers :
        /\ rwlock.writer # Some(t)
        /\ ~Contains(rwlock.waiters, <<t, "write">>)

\* C8: a task never requests the exclusive lock of the map while it holds
\* the shared lock, and under fair scheduling every call completes.
C8_NoEscalationAndCompletion ==
    /\ []NoEscalation
    /\ \A t \in Tasks : (tasks[t].pc # "idle") ~> (tasks[t].pc = "done")

\* A task waits for the exclusive lock, having released the shared lock,
\* while another task holds the shared lock.
C8_Witness ==
    \E t \in Tasks, u \in Tasks :
        /\ t # u
        /\ tasks[t].pc = "await_write"
        /\ t \notin rwlock.readers
        /\ u \in rwlock.readers

----------------------------------------------------------------------------
(* Specification SpecGuild: one task handles the messages of a community    *)
(* one after the other, for every bounded configuration of filters, spam    *)
(* filter and defaults.  Every message is sent and checked at time 0.       *)

\* The most records the queues hold before a call begins.
MaxRecords == 3

RECURSIVE SumLen(_)
SumLen(qs) == IF qs = <<>> THEN 0 ELSE Len(Head(qs).records) + SumLen(Tail(qs))

\* The number of records in all the queues.
Recorded == SumLen(queues)

GuildFilterLists ==
    {<<>>} \cup
    {<<MessageFilter("first", <<WordsRule(<<WordBad>>)>>, s, a)>> :
        s \in FilterScopings, a \in FilterActionLists}

SpamActionLists == {None, Some(<<SendLog(LogChannel), Delete>>)}

GuildSpamConfigs ==
    {None} \cup
    {Some(SpamFilter(None, None, None, None, None, Some(1), 30, a, s)) :
        a \in SpamActionLists, s \in {None, Some(ScopeNotRole1)}}

GuildConfigs ==
    {[messages |-> fs, spam |-> sp, default_scoping |-> ds, default_actions |-> da] :
        fs \in GuildFilterLists, sp \in GuildSpamConfigs,
        ds \in {None, Some(ScopeChannel1)}, da \in {None, Some(<<Delete>>)}}

GuildMessages ==
    {MessageInfo(1, a, o[1], o[2], c, <<>>, 0) :
        a \in Authors, o \in Origins, c \in {Str(<<"b", "a", "d">>), Str(<<"o", "k">>)}}

InitGuild ==
    /\ args = NoCall
    /\ ret = NoCall
    /\ guild_config \in GuildConfigs
    /\ InitEngine
    /\ InitHost

NextGuild ==
    \/ Recorded < MaxRecords /\ \E m \in GuildMessages : Call(1, m, 0)
    \/ TaskStep(1)
    \/ Finish(1)

SpecGuild == InitGuild /\ [][NextGuild]_vars

\* The regular filters that are in scope for the message and whose rules
\* fail on it.
FailingFilters(message) ==
    {i \in 1..Len(guild_config.messages) :
        LET filter == guild_config.messages[i]
            scoping == IF filter.scoping # None THEN filter.scoping
                       ELSE guild_config.default_scoping
        IN  /\ scoping # None =>
                   IsIncluded(Unwrap(scoping), message.channel_id, message.author_roles)
            /\ ~FilterFilterMessage(filter, message).ok}

\* The action templates of the spam stage: its own, else the default, else
\* none.
SpamTemplates ==
    LET spam_config == Unwrap(guild_config.spam)
    IN  IF spam_config.actions # None THEN Unwrap(spam_config.actions)
        ELSE IF guild_config.default_actions # None
        THEN Unwrap(guild_config.default_actions)
        ELSE <<>>

\* The concrete action is the template bound to the message, under the name
\* "Spam".
BindsSpamTemplate(action, template, message) ==
    /\ action.action = template.action
    /\ template.action = "delete" =>
           /\ action.message_id = message.id
           /\ action.channel_id = message.channel_id
    /\ template.action = "send_log" =>
           /\ action.to = template.channel_id
           /\ action.filter_name = "Spam"
           /\ action.author = message.author_id
    /\ template.action = "send_message" =>
           /\ action.to = template.channel_id
           /\ action.requires_armed = template.requires_armed

----------------------------------------------------------------------------
(* Specification SpecWindow: one task checks the messages of one author one *)
(* after the other; a message carries its own timestamp (an edited message  *)
(* keeps the timestamp of the original) and the check the time of the call. *)

\* The latest time, in seconds.
MaxTime == 3

Times == 0..MaxTime

\* The interval of the spam filter, in seconds.
WindowInterval == 1

WindowConfig ==
    [messages |-> <<>>, spam |-> Some(DuplicatesOnly(WindowInterval)),
     default_scoping |-> None, default_actions |-> None]

WindowMessages == {MessageInfo(1, 1, 1, <<>>, Str(<<"x">>), <<>>, ts) : ts \in Times}

InitWindow ==
    /\ args = NoCall
    /\ ret = NoCall
    /\ guild_config = WindowConfig
    /\ InitEngine
    /\ InitHost

NextWindow ==
    \/ /\ Recorded < MaxRecords
       /\ \E m \in WindowMessages, now \in Times :
              /\ m.timestamp <= now
              /\ Call(1, m, AsMicros(now))
    \/ TaskStep(1)
    \/ Finish(1)

SpecWindow == InitWindow /\ [][NextWindow]_vars

\* C6: no record whose age, now - sent_at, exceeds the configured interval
\* is among the records a check sums and counts duplicates over.
C6_NoStaleRecordCounted ==
    \A t \in Tasks :
        (tasks[t].pc = "done" /\ tasks[t].spam_ran) =>
            \A i \in 1..Len(tasks[t].checked) :
                tasks[t].now - tasks[t].checked[i].sent_at
                    <= Unwrap(guild_config.spam).interval * MicrosPerSecond

----------------------------------------------------------------------------
(* Specification SpecStream: one author sends messages one after the other  *)
(* while the clock advances; each message is stamped no earlier than the    *)
(* previous one and no later than the clock, and is checked at the clock.   *)

\* The largest duplicates threshold.
MaxDup == 2

StreamConfigs ==
    {[messages |-> <<>>,
      spam |-> Some(SpamFilter(None, None, None, None, None, Some(d), WindowInterval,
                               None, None)),
      default_scoping |-> None, default_actions |-> None] : d \in 1..MaxDup}

StreamContents == {Str(<<"x">>), Str(<<"y">>)}

\* The timestamp of the author's latest message, in seconds (0 before any).
LastTimestamp ==
    IF spam_history[1] = None \/ queues[Unwrap(spam_history[1])].records = <<>> THEN 0
    ELSE LET records == queues[Unwrap(spam_history[1])].records
         IN  records[Len(records)].sent_at \div MicrosPerSecond

\* Utc::now advances.
Tick ==
    /\ clock < MaxTime
    /\ clock' = clock + 1
    /\ UNCHANGED <<pureVars, engineVars, armed, guild_cfgs, cfgs_lock, cmd_ids, handlers, reload>>

InitStream ==
    /\ args = NoCall
    /\ ret = NoCall
    /\ guild_config \in StreamConfigs
    /\ InitEngine
    /\ InitHost

NextStream ==
    \/ Tick
    \/ /\ Recorded < MaxRecords
       /\ \E c \in StreamContents, ts \in LastTimestamp..clock :
              Call(1, MessageInfo(1, 1, 1, <<>>, c, <<>>, ts), AsMicros(clock))
    \/ TaskStep(1)
    \/ Finish(1)

SpecStream == InitStream /\ [][NextStream]_vars

\* The record is no older than the interval at the time of the task's check.
Fresh(t, record) ==
    tasks[t].now - record.sent_at <= Unwrap(guild_config.spam).interval * MicrosPerSecond

\* The earlier records of the checked history with the content of the
\* task's message.
Identical(t) ==
    {i \in 1..Len(tasks[t].checked) :
        tasks[t].checked[i].content = tasks[t].message.content}

\* A finished check failed exactly when 1 plus the identical retained
\* records exceeds the threshold; the retained records are the fresh ones
\* and, with the new record, they are the queue.
StreamVerdict ==
    (tasks[1].pc = "done" /\ tasks[1].spam_ran) =>
        /\ tasks[1].verdict.ok
               <=> ~(1 + Cardinality(Identical(1)) > Unwrap(Unwrap(guild_config.spam).duplicates))
        /\ ~tasks[1].verdict.ok =>
               tasks[1].verdict.reason = <<"sent too many duplicate messages">>
        /\ \A i \in 1..Len(tasks[1].checked) : Fresh(1, tasks[1].checked[i])
        /\ queues[tasks[1].author_spam_history].records
               = Append(tasks[1].checked, tasks[1].new_spam_record)

\* The check retains exactly the records of the queue that have not aged
\* out, in their order.
StreamRetains ==
    (tasks[1].pc = "locked" /\ tasks'[1].pc = "done") =>
        LET fresh(record) == Fresh(1, record)
        IN  tasks'[1].checked
                = SelectSeq(queues[tasks[1].author_spam_history].records, fresh)

----------------------------------------------------------------------------
(* The queue of an author under SpecWindow: what a step does to it.         *)

\* Task t leaves check_spam_record in this step.
Checks(t) == tasks[t].pc = "locked" /\ tasks'[t].pc = "done"

\* The check of task t drops records from the front of its queue only and
\* puts the record of its message last.
PushesLast(t) ==
    LET q == tasks[t].author_spam_history
        old == queues[q].records
        new == queues'[q].records
    IN  /\ new # <<>>
        /\ new[Len(new)] = SpamRecordFromMessage(tasks[t].message)
        /\ \E dropped \in 0..Len(old) :
               SubSeq(new, 1, Len(new) - 1) = SubSeq(old, dropped + 1, Len(old))
        /\ "verdict" \in DOMAIN tasks'[t]

\* C12: every check_spam_record call appends the record of its message as
\* the last element of the author's queue, whatever its verdict, dropping
\* records from the front only; no other step changes the records of a
\* queue.
C12_AppendOnlyQueue ==
    [][/\ \A t \in Tasks : Checks(t) => PushesLast(t)
       /\ \A q \in 1..Len(queues) :
              (\A t \in Tasks : ~(Checks(t) /\ tasks[t].author_spam_history = q)) =>
                  queues'[q].records = queues[q].records]_vars

\* A check failed over a history of two records, the older one behind the
\* newer, and the record of its message is the last of the queue.
C12_Witness ==
    /\ tasks[1].pc = "done"
    /\ tasks[1].spam_ran
    /\ ~tasks[1].verdict.ok
    /\ Len(tasks[1].checked) = 2
    /\ Len(queues[tasks[1].author_spam_history].records) = 3
    /\ queues[tasks[1].author_spam_history].records[3] = tasks[1].new_spam_record
    /\ tasks[1].checked[1].sent_at > tasks[1].checked[2].sent_at

----------------------------------------------------------------------------
(* Reaction filters, filter.rs *)

\* ReactionType::Unicode and ReactionType::Custom
Unicode(name) == [type |-> "unicode", name |-> name]

Custom(id, name) == [type |-> "custom", id |-> id, name |-> name]

\* ReactionFilterRule::Default, CustomId and CustomName (the names are the
\* alternatives of the substring regex).
DefaultRule(mode, emoji) == [type |-> "default", mode |-> mode, emoji |-> emoji]

CustomIdRule(mode, emoji) == [type |-> "custom_id", mode |-> mode, emoji |-> emoji]

CustomNameRule(names) == [type |-> "custom_name", names |-> names]

\* struct ReactionFilter
ReactionFilter(name, rules, scoping, actions) ==
    [name |-> name, rules |-> rules, scoping |-> scoping, actions |-> actions]

\* Regex::is_match of the substring regex (a|b|...).
IsMatch(names, text) ==
    \E j \in 1..Len(names), pos \in 1..Len(text) :
        /\ pos + Len(names[j]) - 1 <= Len(text)
        /\ \A k \in 1..Len(names[j]) : text[pos + k - 1] = names[j][k]

\* The reason of a reaction rule: the phrase and the emoji between backticks.
ReactionReason(phrase, emoji) == Str(<<phrase, "U0060">>) \o emoji \o Str(<<"U0060">>)

\* ReactionFilterRule::filter_reaction
RuleFilterReaction(rule, reaction) ==
    IF rule.type = "default"
    THEN IF reaction.type = "unicode"
         THEN IF rule.mode = "allow"
              THEN IF ~Contains(rule.emoji, reaction.name)
                   THEN Err(ReactionReason("reacted with unallowed emoji ",
                                           Str(<<reaction.name>>)))
                   ELSE Ok
              ELSE IF Contains(rule.emoji, reaction.name)
                   THEN Err(ReactionReason("reacted with denied emoji ",
                                           Str(<<reaction.name>>)))
                   ELSE Ok
         ELSE Ok
    ELSE IF rule.type = "custom_id"
    THEN IF reaction.type = "custom"
         THEN IF rule.mode = "allow"
              THEN IF ~Contains(rule.emoji, reaction.id)
                   THEN Err(ReactionReason("reacted with unallowed emoji ",
                                           IdToString(reaction.id)))
                   ELSE Ok
              ELSE IF Contains(rule.emoji, reaction.id)
                   THEN Err(ReactionReason("reacted with denied emoji ",
                                           IdToString(reaction.id)))
                   ELSE Ok
         ELSE Ok
    ELSE IF reaction.type = "custom" /\ IsSome(reaction.name)
    THEN IF IsMatch(rule.names, Unwrap(reaction.name))
         THEN Err(ReactionReason("reacted with denied emoji name ", Unwrap(reaction.name)))
         ELSE Ok
    ELSE Ok

\* ReactionFilter::filter_reaction: the result of the first rule that fails.
RECURSIVE FilterFilterReaction(_, _)
FilterFilterReaction(rules, reaction) ==
    IF rules = <<>> THEN Ok
    ELSE LET r == RuleFilterReaction(Head(rules), reaction)
         IN  IF ~r.ok THEN r ELSE FilterFilterReaction(Tail(rules), reaction)

----------------------------------------------------------------------------
(* The event handlers of main.rs: handle_event, filter_message,             *)
(* filter_message_info, filter_reaction, one action per step between two    *)
(* awaits.  An event carries its guild and the member that caused it.       *)

\* The user id of the bot itself.
SelfId == MaxAuthor

\* Event::MessageCreate / MessageUpdate as filter_message_info receives it.
MessageEvent(guild, message, author_is_bot, context) ==
    [kind |-> "message", guild |-> guild, message |-> message,
     author_is_bot |-> author_is_bot, context |-> context]

\* Event::ReactionAdd
ReactionEvent(guild, author_id, author_is_bot, author_roles, channel_id, message_id, emoji) ==
    [kind |-> "reaction", guild |-> guild, author_id |-> author_id,
     author_is_bot |-> author_is_bot, author_roles |-> author_roles,
     channel_id |-> channel_id, message_id |-> message_id, emoji |-> emoji]

\* What a host step leaves alone in the engine.
engineRest == <<pureVars, guild_config, rwlock, tasks>>

\* tokio::spawn(handle_event_wrapper(event, state)); the handler asks for
\* state.guild_cfgs.read().
Spawn(h, event) ==
    /\ handlers[h].pc = "idle"
    /\ handlers' = [handlers EXCEPT ![h] =
            [pc |-> "await_cfgs", event |-> event, issued |-> <<>>, logged |-> <<>>]]
    /\ cfgs_lock' = [cfgs_lock EXCEPT !.waiters = Append(@, <<h, "read">>)]
    /\ UNCHANGED <<engineRest, spam_history, queues, clock, armed, guild_cfgs, cmd_ids, reload>>

\* guild_cfgs.read().await completes: the handler is first in the queue of
\* the lock and no writer holds it.
AcquireCfgsRead(h) ==
    /\ handlers[h].pc = "await_cfgs"
    /\ cfgs_lock.waiters # <<>>
    /\ Head(cfgs_lock.waiters) = <<h, "read">>
    /\ cfgs_lock.writer = None
    /\ cfgs_lock' = [cfgs_lock EXCEPT !.waiters = Tail(@), !.readers = @ \cup {h}]
    /\ handlers' = [handlers EXCEPT ![h].pc = "evaluating"]
    /\ UNCHANGED <<engineRest, spam_history, queues, clock, armed, guild_cfgs, cmd_ids, reload>>

\* The handler returns: the read guard of guild_cfgs is dropped.
Returns(h, result) ==
    /\ handlers' = [handlers EXCEPT ![h] = [@ EXCEPT !.pc = "returned"] @@ [result |-> result]]
    /\ cfgs_lock' = [cfgs_lock EXCEPT !.readers = @ \ {h}]

\* A variant of the bot check that ignores no event.
IgnoresBotNever(event, cfg) == FALSE

\* The bot check of filter_message_info and filter_reaction: the event of a
\* bot is ignored unless include_bots is set.
IgnoresBot(event, cfg) == event.author_is_bot /\ ~cfg.include_bots

\* The filter loop of filter_message_info: the index of the first filter in
\* scope whose rules fail, 0 when there is none.
RECURSIVE FirstFailing(_, _, _, _)
FirstFailing(filters, default_scoping, message, i) ==
    IF i > Len(filters) THEN 0
    ELSE IF /\ InScope(filters[i].scoping, default_scoping, message)
            /\ ~FilterFilterMessage(filters[i], message).ok
    THEN i
    ELSE FirstFailing(filters, default_scoping, message, i + 1)

\* check_spam_record run from its first line to its return: the queue of
\* the author (a new one on a miss), pruned, checked and extended.
CheckSpamRecord(message, config, now) ==
    LET author == message.author_id
        miss == spam_history[author] = None
        q == IF miss THEN Len(queues) + 1 ELSE Unwrap(spam_history[author])
        heap == IF miss THEN Append(queues, NewQueue) ELSE queues
        new_spam_record == SpamRecordFromMessage(message)
        retained == PruneFront(heap[q].records, now, config)
    IN  [result |-> ExceedsSpamThresholds(retained, new_spam_record, config),
         spam_history |-> [spam_history EXCEPT ![author] = Some(q)],
         queues |-> [heap EXCEPT ![q].records = Append(retained, new_spam_record)]]

\* The spam stage of filter_message_info is entered: a spam configuration
\* exists, a scoping applies and includes the message.
SpamStageInScope(cfg, message) ==
    /\ cfg.spam # None
    /\ LET scoping == EffectiveScoping(Unwrap(cfg.spam).scoping, cfg.default_scoping)
       IN  /\ IsSome(scoping)
           /\ IsIncluded(Unwrap(scoping), message.channel_id, message.author_roles)

\* The handler goes on with a failure: to its actions when the failing
\* filter has some, to the report otherwise.
Fails(h, reason, actions, filter_name) ==
    handlers' = [handlers EXCEPT ![h] =
        [@ EXCEPT !.pc = IF IsSome(actions) THEN "acting" ELSE "reporting"] @@
        [reason |-> reason, filter_name |-> filter_name,
         actions |-> IF IsSome(actions) THEN Unwrap(actions) ELSE <<>>,
         index |-> 1, deleted |-> FALSE]]

\* filter_message_info from the read guard to the first action: the bot
\* check, the filter loop, the spam stage.
EvaluateMessage(h) ==
    /\ handlers[h].pc = "evaluating"
    /\ handlers[h].event.kind = "message"
    /\ LET event == handlers[h].event
           message == event.message
           cfg == guild_cfgs[event.guild]
           failing == FirstFailing(Unwrap(cfg.messages), cfg.default_scoping, message, 1)
           spam == CheckSpamRecord(message, Unwrap(cfg.spam), AsMicros(clock))
       IN  IF IgnoresBot(event, cfg) \/ cfg.messages = None
           THEN /\ Returns(h, Ok)
                /\ UNCHANGED <<spam_history, queues>>
           ELSE IF failing # 0
           THEN /\ Fails(h, FilterFilterMessage(Unwrap(cfg.messages)[failing], message).reason,
                         Unwrap(cfg.messages)[failing].actions,
                         Unwrap(cfg.messages)[failing].name)
                /\ UNCHANGED <<cfgs_lock, spam_history, queues>>
           ELSE IF SpamStageInScope(cfg, message)
           THEN /\ spam_history' = spam.spam_history
                /\ queues' = spam.queues
                /\ IF spam.result.ok
                   THEN Returns(h, Ok)
                   ELSE /\ Fails(h, spam.result.reason, Unwrap(cfg.spam).actions, "Spam")
                        /\ UNCHANGED cfgs_lock
           ELSE /\ Returns(h, Ok)
                /\ UNCHANGED <<spam_history, queues>>
    /\ UNCHANGED <<engineRest, clock, armed, guild_cfgs, cmd_ids, reload>>

\* What a step of the action loops leaves alone.
actRest == <<engineRest, spam_history, queues, clock, armed, guild_cfgs, cmd_ids, reload>>

\* The handler sends a request and awaits its response.
Issues(h, request) ==
    handlers' = [handlers EXCEPT ![h].pc = "awaiting",
                                 ![h].issued = Append(@, request @@ [index |-> handlers[h].index])]

\* `continue`: the handler passes to the next action.
Skips(h) == handlers' = [handlers EXCEPT ![h].index = @ + 1]

\* The task of the handler panics: its guards are dropped.
Panics(h) ==
    /\ handlers' = [handlers EXCEPT ![h].pc = "panicked"]
    /\ cfgs_lock' = [cfgs_lock EXCEPT !.readers = @ \ {h}]

\* A variant of the armed check that lets every action run.
MayRunAlways(action, is_armed) == TRUE

\* The armed check of an action, state.armed.load(): a Delete needs the
\* flag, a SendMessage needs it when requires_armed is set, a SendLog never.
MayRun(action, is_armed) ==
    IF action.action = "delete" THEN is_armed
    ELSE IF action.action = "send_message" THEN ~action.requires_armed \/ is_armed
    ELSE TRUE

\* A variant of the response that sends the request again after a failure.
RespondRetrying(h, ok) ==
    /\ handlers[h].pc = "awaiting"
    /\ LET self == handlers[h]
           sent == self.issued[Len(self.issued)]
       IN  handlers' = [handlers EXCEPT
               ![h].logged = IF ok THEN @ ELSE Append(@, sent.index),
               ![h].deleted = @ \/ sent.request = "delete_message",
               ![h].index = IF self.event.kind = "message" /\ ok THEN @ + 1 ELSE @,
               ![h].pc = IF self.event.kind = "message" THEN "acting" ELSE "reporting"]
    /\ UNCHANGED <<actRest, cfgs_lock>>

\* One turn of the action loop of filter_message_info, up to the await of
\* the request it sends.
ActMessage(h) ==
    /\ handlers[h].pc = "acting"
    /\ handlers[h].event.kind = "message"
    /\ LET self == handlers[h]
           message == self.event.message
       IN  IF self.index > Len(self.actions)
           THEN handlers' = [handlers EXCEPT ![h].pc = "reporting"] /\ UNCHANGED cfgs_lock
           ELSE LET action == self.actions[self.index]
                IN  IF action.action = "delete"
                    THEN /\ IF self.deleted \/ ~MayRun(action, armed) THEN Skips(h)
                            ELSE Issues(h, [request |-> "delete_message",
                                            channel_id |-> message.channel_id,
                                            message_id |-> message.id])
                         /\ UNCHANGED cfgs_lock
                    ELSE IF action.action = "send_log"
                    THEN /\ Issues(h, [request |-> "create_message",
                                       to |-> action.channel_id,
                                       embed |-> [title |-> "Message filtered",
                                                  filter |-> self.filter_name,
                                                  author |-> message.author_id,
                                                  channel |-> message.channel_id,
                                                  reason |-> self.reason,
                                                  context |-> self.event.context,
                                                  description |-> message.content]])
                         /\ UNCHANGED cfgs_lock
                    ELSE IF ~MayRun(action, armed)
                    THEN Skips(h) /\ UNCHANGED cfgs_lock
                    ELSE LET formatted1 == Replace(action.content, "$USER_ID",
                                                   IdToString(message.author_id))
                             formatted2 == Replace(formatted1, "$FILTER_REASON", self.reason)
                             formatted3 == FormatMessagePreview(formatted2, message.content,
                                                                TRUE)
                         IN  IF formatted3.panicked THEN Panics(h)
                             ELSE /\ Issues(h, [request |-> "create_message",
                                                to |-> action.channel_id,
                                                content |-> formatted3.value])
                                  /\ UNCHANGED cfgs_lock
    /\ UNCHANGED actRest

\* The response of the platform arrives: an error is logged; after a delete
\* request of the message the `deleted` flag is set.  The message handler
\* goes on with the next action, the reaction handler with its report.
Respond(h, ok) ==
    /\ handlers[h].pc = "awaiting"
    /\ LET self == handlers[h]
           sent == self.issued[Len(self.issued)]
       IN  handlers' = [handlers EXCEPT
               ![h].logged = IF ok THEN @ ELSE Append(@, sent.index),
               ![h].deleted = @ \/ sent.request = "delete_message",
               ![h].index = IF self.event.kind = "message" THEN @ + 1 ELSE @,
               ![h].pc = IF self.event.kind = "message" THEN "acting" ELSE "reporting"]
    /\ UNCHANGED <<actRest, cfgs_lock>>

\* send_influx_point(...).await?: the message handler reports after its
\* actions and returns; the reaction handler reports after every action it
\* ran and returns early when the report fails.
Report(h, ok) ==
    /\ handlers[h].pc = "reporting"
    /\ IF handlers[h].event.kind = "message" \/ ~ok
       THEN Returns(h, IF ok THEN Ok ELSE Err(<<"influx">>))
       ELSE /\ handlers' = [handlers EXCEPT ![h].pc = "acting", ![h].index = @ + 1]
            /\ UNCHANGED cfgs_lock
    /\ UNCHANGED actRest

\* handle_command, CommandKind::Arm and CommandKind::Disarm
Arm ==
    /\ armed' = TRUE
    /\ UNCHANGED <<engineRest, spam_history, queues, clock, guild_cfgs, cfgs_lock, cmd_ids, handlers, reload>>

Disarm ==
    /\ armed' = FALSE
    /\ UNCHANGED <<engineRest, spam_history, queues, clock, guild_cfgs, cfgs_lock, cmd_ids, handlers, reload>>

\* The filter loop of filter_reaction (main.rs) from filter i on: the index
\* of the next filter in scope whose rules fail and for which an action
\* list is resolved, 0 when there is none.
RECURSIVE NextFailing(_, _, _)
NextFailing(cfg, event, i) ==
    IF i > Len(Unwrap(cfg.reactions)) THEN 0
    ELSE LET filter == Unwrap(cfg.reactions)[i]
             scoping == EffectiveScoping(filter.scoping, cfg.default_scoping)
         IN  IF /\ IsSome(scoping) =>
                       IsIncluded(Unwrap(scoping), event.channel_id, event.author_roles)
                /\ ~FilterFilterReaction(filter.rules, event.emoji).ok
                /\ IsSome(EffectiveActions(filter.actions, cfg.default_actions))
             THEN i
             ELSE NextFailing(cfg, event, i + 1)

\* The handler of a reaction goes on with the filter loop from filter i on:
\* to the actions of the next failing filter, or to its return.
ReactionLoop(h, i) ==
    LET event == handlers[h].event
        cfg == guild_cfgs[event.guild]
        failing == NextFailing(cfg, event, i)
        filter == Unwrap(cfg.reactions)[failing]
    IN  IF failing = 0 THEN Returns(h, Ok)
        ELSE /\ handlers' = [handlers EXCEPT ![h] =
                    [pc |-> "acting", event |-> event, issued |-> handlers[h].issued,
                     logged |-> handlers[h].logged, filter |-> failing,
                     reason |-> FilterFilterReaction(filter.rules, event.emoji).reason,
                     filter_name |-> filter.name,
                     actions |-> Unwrap(EffectiveActions(filter.actions,
                                                         cfg.default_actions)),
                     index |-> 1, deleted |-> FALSE]]
             /\ UNCHANGED cfgs_lock

\* filter_reaction (main.rs) from the read guard to the first action.
EvaluateReaction(h) ==
    /\ handlers[h].pc = "evaluating"
    /\ handlers[h].event.kind = "reaction"
    /\ LET event == handlers[h].event
           cfg == guild_cfgs[event.guild]
       IN  IF IgnoresBot(event, cfg) \/ cfg.reactions = None
           THEN Returns(h, Ok)
           ELSE ReactionLoop(h, 1)
    /\ UNCHANGED actRest

\* One turn of the action loop of filter_reaction (main.rs), up to the
\* await of the request it sends; after the last action of a filter the
\* filter loop goes on.
ActReaction(h) ==
    /\ handlers[h].pc = "acting"
    /\ handlers[h].event.kind = "reaction"
    /\ LET self == handlers[h]
           event == self.event
       IN  IF self.index > Len(self.actions)
           THEN ReactionLoop(h, self.filter + 1)
           ELSE LET action == self.actions[self.index]
                IN  /\ IF action.action = "delete"
                       THEN IF ~MayRun(action, armed) THEN Skips(h)
                            ELSE Issues(h, [request |-> "delete_all_reaction",
                                            channel_id |-> event.channel_id,
                                            message_id |-> event.message_id,
                                            emoji |-> event.emoji])
                       ELSE IF action.action = "send_log"
                       THEN Issues(h, [request |-> "create_message",
                                       to |-> action.channel_id,
                                       embed |-> [title |-> "Reaction filtered",
                                                  filter |-> self.filter_name,
                                                  author |-> event.author_id,
                                                  channel |-> event.channel_id,
                                                  reason |-> self.reason,
                                                  reaction |-> event.emoji]])
                       ELSE IF ~MayRun(action, armed)
                       THEN Skips(h)
                       ELSE Issues(h, [request |-> "create_message",
                                       to |-> action.channel_id,
                                       content |->
                                           Replace(Replace(action.content, "$USER_ID",
                                                           IdToString(event.author_id)),
                                                   "$FILTER_REASON", self.reason)])
                    /\ UNCHANGED cfgs_lock
    /\ UNCHANGED actRest

\* The steps of a spawned handler.
HandlerStep(h) ==
    \/ AcquireCfgsRead(h)
    \/ EvaluateMessage(h)
    \/ EvaluateReaction(h)
    \/ ActMessage(h)
    \/ ActReaction(h)
    \/ \E ok \in BOOLEAN : Respond(h, ok)
    \/ \E ok \in BOOLEAN : Report(h, ok)

\* handle_event_wrapper ends and the task is gone; the runtime spawns the
\* next one.
Retire(h) ==
    /\ handlers[h].pc \in {"returned", "panicked"}
    /\ handlers' = [handlers EXCEPT ![h] = IdleHandler]
    /\ UNCHANGED <<actRest, cfgs_lock>>

----------------------------------------------------------------------------
(* Specification SpecHost: events of one guild are handled one after the    *)
(* other, for every bounded configuration, while moderators arm and disarm  *)
(* the bot and the platform answers each request with success or failure.   *)

HostActionLists ==
    {<<Delete, SendLog(LogChannel), Delete>>,
     <<SendMessage(LogChannel, ReplyTemplate, TRUE), Delete,
       SendMessage(LogChannel, ReplyTemplate, FALSE)>>}

HostConfigs ==
    {[messages |-> Some(<<MessageFilter("first", <<WordsRule(<<WordBad>>)>>, None, Some(a))>>),
      reactions |->
          Some(<<ReactionFilter("deny", <<DefaultRule("deny", <<"U1F600">>)>>, None, ra),
                 ReactionFilter("allow",
                                <<CustomNameRule(<<Str(<<"b", "a", "d">>)>>),
                                  DefaultRule("allow", <<"U2764">>)>>,
                                None, Some(a))>>),
      spam |-> sp,
      default_scoping |-> Some(ScopeNotRole1),
      default_actions |-> Some(<<SendLog(LogChannel)>>),
      include_bots |-> ib,
      slash_commands |-> None] :
        a \in HostActionLists,
        ra \in {None, Some(<<Delete, Delete>>)},
        sp \in {None, Some(SpamFilter(None, None, None, None, None, Some(1), 30,
                                      Some(<<SendLog(LogChannel), Delete>>), None))},
        ib \in BOOLEAN}

\* The members that cause events: a user, and the bot itself.
HostMembers == {<<1, FALSE>>, <<SelfId, TRUE>>}

HostEvents ==
    {MessageEvent(1, MessageInfo(1, m[1], 1, <<>>, c, <<>>, 0), m[2], "message create") :
        m \in HostMembers, c \in {Str(<<"a", " ", "b", "a", "d">>), Str(<<"o", "k">>)}}
    \cup
    {ReactionEvent(1, m[1], m[2], <<>>, 1, 1, e) :
        m \in HostMembers,
        e \in {Unicode("U1F600"), Unicode("U2764"), Custom(5, Some(Str(<<"b", "a", "d">>)))}}

InitSpecHost ==
    /\ args = NoCall
    /\ ret = NoCall
    /\ guild_config = EmptyConfig
    /\ InitEngine
    /\ clock = 0
    /\ armed \in BOOLEAN
    /\ \E cfg \in HostConfigs :
           guild_cfgs = [g \in Guilds |-> IF g = 1 THEN cfg ELSE EmptyGuildConfig]
    /\ cfgs_lock = FreeLock
    /\ cmd_ids = [g \in Guilds |-> None]
    /\ handlers = [h \in Handlers |-> IdleHandler]
    /\ reload = IdleReload

NextHost ==
    \/ Recorded < MaxRecords /\ \E event \in HostEvents : Spawn(1, event)
    \/ HandlerStep(1)
    \/ Retire(1)
    \/ Arm
    \/ Disarm

SpecHost == InitSpecHost /\ [][NextHost]_vars

\* The handlers that have begun handling an event.
Busy == {h \in Handlers : handlers[h].pc # "idle"}

\* The delete requests a handler has sent for its event.
DeleteRequests(h) ==
    {k \in 1..Len(handlers[h].issued) :
        handlers[h].issued[k].request \in {"delete_message", "delete_all_reaction"}}

\* C14: for one message or reaction event, the handler sends at most one
\* delete request to the platform.
C14_AtMostOneDeleteRequest ==
    \A h \in Busy : Cardinality(DeleteRequests(h)) <= 1

\* The handler is in its action loop, at an action of its list.
AtAction(h) ==
    /\ handlers[h].pc = "acting"
    /\ handlers[h].index <= Len(handlers[h].actions)

\* The handler sends a request in this step.
Sends(h) ==
    /\ handlers[h].pc # "idle"
    /\ handlers'[h].pc # "idle"
    /\ Len(handlers'[h].issued) = Len(handlers[h].issued) + 1

\* The action a handler in its action loop is at.
Current(h) == handlers[h].actions[handlers[h].index]

\* The action always runs: a SendLog, or a SendMessage that does not
\* require the bot to be armed.
Ungated(action) ==
    \/ action.action = "send_log"
    \/ action.action = "send_message" /\ ~action.requires_armed

\* C15: while the armed flag is unset, a handler sends no delete request and
\* no SendMessage that requires the bot to be armed, and it still sends
\* every SendLog and every SendMessage that does not require it; a delete
\* request is sent only in a step that finds the flag set.
C15_ArmedGate ==
    [][\A h \in Handlers :
           /\ (Sends(h) /\ ~Ungated(Current(h))) => armed
           /\ (AtAction(h) /\ Ungated(Current(h)) /\ handlers'[h] # handlers[h]) =>
                  \/ Sends(h)
                  \/ handlers'[h].pc = "panicked"]_vars

\* Disarmed, a handler has gone through a list of three actions and has
\* sent the one request that needs no arming, the log message.
C15_Witness ==
    /\ ~armed
    /\ \E h \in Busy :
           /\ handlers[h].pc = "returned"
           /\ "actions" \in DOMAIN handlers[h]
           /\ handlers[h].actions = <<Delete, SendLog(LogChannel), Delete>>
           /\ Len(handlers[h].issued) = 1
           /\ handlers[h].issued[1].index = 2
           /\ "embed" \in DOMAIN handlers[h].issued[1]

\* The handler of a message is past its action loop.
PastActions(h) ==
    /\ handlers[h].pc \in {"reporting", "returned"}
    /\ handlers[h].event.kind = "message"
    /\ "actions" \in DOMAIN handlers[h]

InOrder(h) ==
    /\ \A j \in 1..Len(handlers[h].issued), k \in 1..Len(handlers[h].issued) :
           j < k => handlers[h].issued[j].index < handlers[h].issued[k].index
    /\ \A j \in 1..Len(handlers[h].logged) :
           \E k \in 1..Len(handlers[h].issued) :
               handlers[h].issued[k].index = handlers[h].logged[j]

\* The action is passed over only for the armed check, or as a Delete after
\* a delete request was sent for the message.
PassedOver(h) ==
    /\ handlers'[h] = [handlers[h] EXCEPT !.index = @ + 1]
    /\ \/ ~MayRun(Current(h), armed)
       \/ Current(h).action = "delete" /\ DeleteRequests(h) # {}

\* A step of the handler of a message in its action loop: at an action it
\* sends its request or passes it over; at a response it logs a failure and
\* goes on with the next action, whatever the response; it changes nothing
\* a later event is evaluated with.
Advances(h) ==
    /\ AtAction(h) =>
           \/ Sends(h) /\ handlers'[h].issued[Len(handlers'[h].issued)].index
                              = handlers[h].index
           \/ PassedOver(h)
           \/ handlers'[h].pc = "panicked"
    /\ handlers[h].pc = "awaiting" =>
           /\ handlers'[h].pc = "acting"
           /\ handlers'[h].index = handlers[h].index + 1
           /\ handlers'[h].issued = handlers[h].issued
           /\ \/ handlers'[h].logged = handlers[h].logged
              \/ handlers'[h].logged = Append(handlers[h].logged, handlers[h].index)
    /\ handlers[h].pc \in {"acting", "awaiting"} =>
           /\ UNCHANGED <<armed, guild_cfgs, spam_history, queues>>
           /\ \A other \in Handlers \ {h} : handlers'[other] = handlers[other]

C19_IgnoresItself ==
    \A h \in Busy :
        (handlers[h].event.kind = "message"
            /\ handlers[h].event.message.author_id = SelfId) =>
            /\ handlers[h].issued = <<>>
            /\ handlers[h].pc \notin {"acting", "awaiting", "reporting"}

----------------------------------------------------------------------------
(* reload_guild_configs, main.rs, and load_guild_configs, config.rs *)

\* A configuration file that cannot be read, one that is not valid YAML for
\* a GuildConfig, and one that deserializes to the given GuildConfig.
Missing == [file |-> "missing"]

Malformed == [file |-> "malformed"]

File(guild) == [file |-> "yaml", guild |-> guild]

\* A variant that reports the empty lists of a scoping only.
ValidateScopingListsOnly(scoping, context) ==
    {<<context, key, "empty">> :
        key \in {k \in {"exclude_channels", "include_channels", "exclude_roles"} :
                    IsSome(scoping[k]) /\ Len(Unwrap(scoping[k])) = 0}}

\* validate_scoping: the errors of one Scoping.  An error is the context,
\* the key it is about and the fault; a context is the place and the index
\* of the filter, 0 where there is none.
ValidateScoping(scoping, context) ==
    (IF IsSome(scoping.exclude_channels) /\ IsSome(scoping.include_channels)
     THEN {<<context, "exclude_channels and include_channels", "both">>} ELSE {})
    \cup (IF IsSome(scoping.exclude_channels) /\ Len(Unwrap(scoping.exclude_channels)) = 0
          THEN {<<context, "exclude_channels", "empty">>} ELSE {})
    \cup (IF IsSome(scoping.include_channels) /\ Len(Unwrap(scoping.include_channels)) = 0
          THEN {<<context, "include_channels", "empty">>} ELSE {})
    \cup (IF IsSome(scoping.exclude_roles) /\ Len(Unwrap(scoping.exclude_roles)) = 0
          THEN {<<context, "exclude_roles", "empty">>} ELSE {})

\* The test validate_guild_config makes before it reports that a spam
\* filter specifies no thresholds.
NoSpamThresholds(spam) ==
    /\ spam.emoji = None
    /\ spam.attachments = None
    /\ spam.duplicates = None
    /\ spam.links = None
    /\ spam.spoilers = None

\* The errors validate_guild_config collects for the scopings, the action
\* lists, the spam thresholds and the filter lists of a guild (the set of
\* them, their order is not used).
ValidationErrors(guild) ==
    LET has_default_actions ==
            IsSome(guild.default_actions) /\ Len(Unwrap(guild.default_actions)) # 0
        Actions(context, actions) ==
            IF IsSome(actions)
            THEN IF Len(Unwrap(actions)) = 0 THEN {<<context, "actions", "empty">>} ELSE {}
            ELSE IF has_default_actions THEN {} ELSE {<<context, "actions", "none">>}
        Scoped(context, scoping) ==
            IF IsSome(scoping) THEN ValidateScoping(Unwrap(scoping), context) ELSE {}
        Filters(what, filters) ==
            IF filters = None THEN {}
            ELSE (IF Len(Unwrap(filters)) = 0 THEN {<<<<what, 0>>, what, "empty">>} ELSE {})
                 \cup UNION {Actions(<<what, i>>, Unwrap(filters)[i].actions)
                                \cup Scoped(<<what, i>>, Unwrap(filters)[i].scoping)
                                \cup (IF Len(Unwrap(filters)[i].rules) = 0
                                      THEN {<<<<what, i>>, "rules", "none">>} ELSE {}) :
                             i \in 1..Len(Unwrap(filters))}
    IN  Scoped(<<"default scoping", 0>>, guild.default_scoping)
        \cup (IF IsSome(guild.default_actions) /\ ~has_default_actions
              THEN {<<<<"default_actions", 0>>, "default_actions", "empty">>} ELSE {})
        \cup (IF IsSome(guild.spam)
              THEN Scoped(<<"spam scoping", 0>>, Unwrap(guild.spam).scoping)
                   \cup Actions(<<"spam", 0>>, Unwrap(guild.spam).actions)
                   \cup (IF NoSpamThresholds(Unwrap(guild.spam))
                         THEN {<<<<"spam", 0>>, "thresholds", "none">>} ELSE {})
              ELSE {})
        \cup Filters("messages", guild.messages)
        \cup Filters("reactions", guild.reactions)

\* validate_guild_config
ValidateGuildConfig(guild) ==
    IF ValidationErrors(guild) = {} THEN Ok ELSE Err(ValidationErrors(guild))

\* load_config: read the file, deserialize it, validate it.
LoadConfig(file) ==
    IF file.file = "missing" THEN Err("io")
    ELSE IF file.file = "malformed" THEN Err("deserialize")
    ELSE IF ValidateGuildConfig(file.guild).ok
    THEN Ok @@ [config |-> file.guild]
    ELSE Err("validate")

\* The first guild of active_guilds whose file does not load, 0 when every
\* file loads.
RECURSIVE FirstUnloadable(_, _)
FirstUnloadable(files, g) ==
    IF g > MaxGuild THEN 0
    ELSE IF ~LoadConfig(files[g]).ok THEN g
    ELSE FirstUnloadable(files, g + 1)

\* A variant that keeps the guilds that load and leaves a guild that does
\* not without filters.
LoadGuildConfigsSkipping(files) ==
    Ok @@ [configs |-> [g \in Guilds |->
                IF LoadConfig(files[g]).ok THEN LoadConfig(files[g]).config
                ELSE EmptyGuildConfig]]

\* load_guild_configs: the map of every active guild, or the first guild
\* that does not load.
LoadGuildConfigs(files) ==
    IF FirstUnloadable(files, 1) # 0
    THEN Err(<<FirstUnloadable(files, 1), LoadConfig(files[FirstUnloadable(files, 1)]).reason>>)
    ELSE Ok @@ [configs |-> [g \in Guilds |-> LoadConfig(files[g]).config]]

\* The command state create_commands_for_guild returns.
Registered == Some("registered")

\* update_guild_commands: whether it calls the platform, and what it returns
\* when every call succeeds.
UpdateGuildCommands(old_config, new_config, command_state) ==
    IF IsSome(old_config) /\ IsSome(new_config) /\ IsSome(command_state)
    THEN [calls |-> old_config # new_config, value |-> command_state]
    ELSE IF IsSome(new_config)
    THEN [calls |-> TRUE, value |-> Registered]
    ELSE IF IsSome(old_config) /\ IsSome(command_state)
    THEN [calls |-> TRUE, value |-> None]
    ELSE [calls |-> FALSE, value |-> None]

hostRest == <<engineRest, spam_history, queues, clock, armed, handlers>>

\* reload_guild_configs is called: the files are loaded; on success the
\* reload takes cmd_ids.write() and asks for guild_cfgs.write().
StartReload(files, has_application_id) ==
    /\ reload.pc = "idle"
    /\ LET loaded == LoadGuildConfigs(files)
       IN  IF loaded.ok
           THEN /\ reload' = [pc |-> "await_write", files |-> files,
                              new_guild_configs |-> loaded.configs,
                              has_application_id |-> has_application_id]
                /\ cfgs_lock' = [cfgs_lock EXCEPT !.waiters = Append(@, <<0, "write">>)]
           ELSE /\ reload' = [pc |-> "returned", files |-> files, result |-> loaded]
                /\ UNCHANGED cfgs_lock
    /\ UNCHANGED <<hostRest, guild_cfgs, cmd_ids>>

\* guild_cfgs.write().await completes: the reload is first in the queue and
\* nobody holds the lock.
AcquireCfgsWrite ==
    /\ reload.pc = "await_write"
    /\ cfgs_lock.waiters # <<>>
    /\ Head(cfgs_lock.waiters) = <<0, "write">>
    /\ cfgs_lock.writer = None
    /\ cfgs_lock.readers = {}
    /\ cfgs_lock' = [cfgs_lock EXCEPT !.waiters = Tail(@), !.writer = Some(0)]
    /\ reload' = [reload EXCEPT !.pc = "updating"]
           @@ [pending |-> IF reload.has_application_id THEN Guilds ELSE {}]
    /\ UNCHANGED <<hostRest, guild_cfgs, cmd_ids>>

\* One turn of the loop over the new map, in the order the map yields: the
\* commands of a guild are updated, and a failing call returns the error
\* with the guards dropped and the map as it was.
UpdateCommands(guild_id, ok) ==
    /\ reload.pc = "updating"
    /\ guild_id \in reload.pending
    /\ LET updated == UpdateGuildCommands(guild_cfgs[guild_id].slash_commands,
                                          reload.new_guild_configs[guild_id].slash_commands,
                                          cmd_ids[guild_id])
       IN  /\ updated.calls \/ ok
           /\ IF ok
              THEN /\ cmd_ids' = [cmd_ids EXCEPT ![guild_id] = updated.value]
                   /\ reload' = [reload EXCEPT !.pending = @ \ {guild_id}]
                   /\ UNCHANGED cfgs_lock
              ELSE /\ reload' = [pc |-> "returned", files |-> reload.files,
                                 result |-> Err(<<guild_id, "http">>)]
                   /\ cfgs_lock' = [cfgs_lock EXCEPT !.writer = None]
                   /\ UNCHANGED cmd_ids
    /\ UNCHANGED <<hostRest, guild_cfgs>>

\* *guild_cfgs = new_guild_configs; Ok(()): the guards are dropped.
Swap ==
    /\ reload.pc = "updating"
    /\ reload.pending = {}
    /\ guild_cfgs' = reload.new_guild_configs
    /\ cfgs_lock' = [cfgs_lock EXCEPT !.writer = None]
    /\ reload' = [pc |-> "returned", files |-> reload.files, result |-> Ok]
    /\ UNCHANGED <<hostRest, cmd_ids>>

\* The caller has reported the result; the next tick or command may reload.
ReloadDone ==
    /\ reload.pc = "returned"
    /\ reload' = IdleReload
    /\ UNCHANGED <<hostRest, guild_cfgs, cmd_ids, cfgs_lock>>

----------------------------------------------------------------------------
(* Specification SpecReload: handler tasks evaluate message and reaction    *)
(* events of guild 1 and execute their actions while configurations are     *)
(* reloaded from files that load, or do not, guild by guild.                *)

\* A configuration with a word filter, a reaction filter and slash commands.
FilteringConfig ==
    [EmptyGuildConfig EXCEPT
        !.messages = Some(<<MessageFilter("first", <<WordsRule(<<WordBad>>)>>, None,
                                          Some(<<SendLog(LogChannel)>>))>>),
        !.reactions = Some(<<ReactionFilter("deny", <<DefaultRule("deny", <<"U1F600">>)>>,
                                            None, Some(<<Delete>>))>>),
        !.slash_commands = Some("moderators")]

\* A configuration validate_guild_config rejects: a filter without actions
\* in a guild without default actions.
RejectedConfig ==
    [EmptyGuildConfig EXCEPT
        !.messages = Some(<<MessageFilter("first", <<WordsRule(<<WordBad>>)>>, None, None)>>)]

ReloadFiles ==
    {Missing, Malformed, File(FilteringConfig), File(EmptyGuildConfig), File(RejectedConfig)}

ReloadEvents ==
    {MessageEvent(1, MessageInfo(1, 1, 1, <<>>, Str(<<"a", " ", "b", "a", "d">>), <<>>, 0),
                  FALSE, "message create"),
     ReactionEvent(1, 1, FALSE, <<>>, 1, 1, Unicode("U1F600"))}

InitSpecReload ==
    /\ args = NoCall
    /\ ret = NoCall
    /\ guild_config = EmptyConfig
    /\ InitEngine
    /\ clock = 0
    /\ armed = TRUE
    /\ guild_cfgs \in [Guilds -> {FilteringConfig, EmptyGuildConfig}]
    /\ cfgs_lock = FreeLock
    /\ cmd_ids = [g \in Guilds |-> None]
    /\ handlers = [h \in Handlers |-> IdleHandler]
    /\ reload = IdleReload

NextReload ==
    \/ \E h \in Handlers, event \in ReloadEvents : Spawn(h, event)
    \/ \E h \in Handlers : HandlerStep(h)
    \/ \E h \in Handlers : Retire(h)
    \/ \E files \in [Guilds -> ReloadFiles], has_application_id \in BOOLEAN :
           StartReload(files, has_application_id)
    \/ AcquireCfgsWrite
    \/ \E guild_id \in Guilds, ok \in BOOLEAN : UpdateCommands(guild_id, ok)
    \/ Swap
    \/ ReloadDone

SpecReload == InitSpecReload /\ [][NextReload]_vars

\* Specification SpecLoad: the reloads of SpecReload beside one handler task.
NextLoad ==
    \/ \E event \in ReloadEvents : Spawn(1, event)
    \/ HandlerStep(1)
    \/ Retire(1)
    \/ \E files \in [Guilds -> ReloadFiles], has_application_id \in BOOLEAN :
           StartReload(files, has_application_id)
    \/ AcquireCfgsWrite
    \/ \E guild_id \in Guilds, ok \in BOOLEAN : UpdateCommands(guild_id, ok)
    \/ Swap
    \/ ReloadDone

SpecLoad == InitSpecReload /\ [][NextLoad]_vars

\* Every file of the reload loads and validates.
AllLoad(files) == \A g \in Guilds : LoadConfig(files[g]).ok

\* C16: a reload in which the configuration of some guild does not load or
\* does not validate returns an error without touching the active map; the
\* map changes only in the last step of a reload whose files all load and
\* validate, and that step replaces the configuration of every guild by the
\* one loaded from its file.
C16_SwapOrReject ==
    [][/\ guild_cfgs' # guild_cfgs =>
              /\ reload.pc = "updating"
              /\ AllLoad(reload.files)
              /\ \A g \in Guilds : guild_cfgs'[g] = LoadConfig(reload.files[g]).config
       /\ (reload.pc = "idle" /\ reload'.pc # "idle" /\ ~AllLoad(reload'.files)) =>
              /\ reload'.pc = "returned"
              /\ ~reload'.result.ok
              /\ guild_cfgs' = guild_cfgs]_vars

\* A reload has returned an error for a file that does not load while the
\* file of another guild held a configuration different from the active one,
\* which stays active.
C16_Witness ==
    /\ reload.pc = "returned"
    /\ ~reload.result.ok
    /\ ~AllLoad(reload.files)
    /\ \E g \in Guilds :
           /\ LoadConfig(reload.files[g]).ok
           /\ LoadConfig(reload.files[g]).config # guild_cfgs[g]

\* The reload holds the write guard and has yet to call the platform for
\* the commands of some guild.
CallsPlatform ==
    /\ reload.pc = "updating"
    /\ \E g \in reload.pending :
           UpdateGuildCommands(guild_cfgs[g].slash_commands,
                               reload.new_guild_configs[g].slash_commands,
                               cmd_ids[g]).calls

\* C17: a reload never waits for an event evaluation whose action is
\* awaiting the platform, and no event evaluation waits for a reload that
\* is still to call the platform before it swaps the map.
C17_NeitherWaitsForTheOther ==
    /\ ~(/\ reload.pc = "await_write"
         /\ \E h \in cfgs_lock.readers : handlers[h].pc = "awaiting")
    /\ ~(/\ CallsPlatform
         /\ \E h \in Handlers : handlers[h].pc = "await_cfgs")

\* C17, the first half alone: the reload waits for the write guard while a
\* handler holding the read guard awaits the platform's answer to an action.
ReloadWaitsForAction ==
    /\ reload.pc = "await_write"
    /\ \E h \in cfgs_lock.readers : handlers[h].pc = "awaiting"

----------------------------------------------------------------------------
(* Specification SpecSkeleton: skeletonize is applied to every string of    *)
(* bounded length over the mapped code points and two unmapped letters, and *)
(* then to its own result.                                                  *)

MaxStr == 3

SkeletonAlphabet == DOMAIN Confusables \cup {"p", "l"}

CallSkeletonize ==
    /\ args = NoCall
    /\ \E str \in SeqsUpTo(SkeletonAlphabet, MaxStr) :
          /\ args' = [fn |-> "skeletonize", str |-> str]
          /\ ret' = [fn |-> "skeletonize", once |-> SkeletonizeCow(str),
                     twice |-> SkeletonizeCow(Skeletonize(str))]
    /\ UNCHANGED <<engineVars, hostVars>>

NextSkeleton == CallSkeletonize \/ Return

SpecSkeleton == InitPure /\ [][NextSkeleton]_vars

Replacement(char) == IF IsConfusable(char) THEN Confusables[char] ELSE <<char>>

\* The replacements of the characters of a string, one after the other.
RECURSIVE Concatenated(_)
Concatenated(str) ==
    IF str = <<>> THEN <<>> ELSE Replacement(Head(str)) \o Concatenated(Tail(str))

\* C21: skeletonize returns the concatenation, character by character, of
\* the replacement of a confusable character and of the character itself
\* otherwise, and it returns its argument borrowed exactly when no character
\* of the input has a mapping.
C21_SkeletonizeIsConcatenation ==
    args.fn = "skeletonize" =>
        /\ ret.once.str = Concatenated(args.str)
        /\ ret.once.owned <=> \E i \in 1..Len(args.str) : IsConfusable(args.str[i])

\* An input whose first confusable character comes after an unmapped one
\* and is followed by another unmapped one: the copy starts in the middle.
C21_Witness ==
    /\ args.fn = "skeletonize"
    /\ args.str = <<"l", "U0251", "p">>
    /\ ret.once = [owned |-> TRUE, str |-> <<"l", "a", "p">>]

----------------------------------------------------------------------------
(* filter_reaction, reaction.rs *)

\* struct ReactionInfo (the fields the pipeline reads)
ReactionInfo(author_id, author_roles, channel_id, message_id, reaction) ==
    [author_id |-> author_id, author_roles |-> author_roles,
     channel_id |-> channel_id, message_id |-> message_id, reaction |-> reaction]

\* map_filter_action_to_action of reaction.rs: the ReactionAction of a
\* template (Delete, SendMessage and SendLog, the variants config.rs
\* declares).
MapReactionAction(filter_action, reaction, filter_name, filter_reason) ==
    IF filter_action.action = "delete"
    THEN [action |-> "delete", message_id |-> reaction.message_id,
          channel_id |-> reaction.channel_id, reaction |-> reaction.reaction]
    ELSE IF filter_action.action = "send_log"
    THEN [action |-> "send_log", to |-> filter_action.channel_id,
          filter_name |-> filter_name, message |-> reaction.message_id,
          channel |-> reaction.channel_id, author |-> reaction.author_id,
          filter_reason |-> filter_reason, reaction |-> reaction.reaction]
    ELSE [action |-> "send_message", to |-> filter_action.channel_id,
          content |-> Replace(Replace(filter_action.content, "$USER_ID",
                                      IdToString(reaction.author_id)),
                              "$FILTER_REASON", filter_reason),
          requires_armed |-> filter_action.requires_armed]

\* struct ReactionFilterFailure, as the Err of a Result
ReactionFilterFailure(filter_name, actions) ==
    [ok |-> FALSE, filter_name |-> filter_name, actions |-> actions]

\* A variant of the loop that does not look at the scoping.
RECURSIVE FilterReactionEverywhere(_, _, _, _)
FilterReactionEverywhere(filters, default_scoping, default_actions, reaction) ==
    IF filters = <<>> THEN Ok
    ELSE LET filter == Head(filters)
             result == FilterFilterReaction(filter.rules, reaction.reaction)
             actions == EffectiveActions(filter.actions, default_actions)
         IN  IF ~result.ok
             THEN ReactionFilterFailure(filter.name,
                      [i \in 1..Len(IF IsSome(actions) THEN Unwrap(actions) ELSE <<>>) |->
                          MapReactionAction(Unwrap(actions)[i], reaction, filter.name,
                                            result.reason)])
             ELSE FilterReactionEverywhere(Tail(filters), default_scoping,
                                           default_actions, reaction)

\* filter_reaction: the loop over the filters, from the first.
RECURSIVE FilterReaction(_, _, _, _)
FilterReaction(filters, default_scoping, default_actions, reaction) ==
    IF filters = <<>> THEN Ok
    ELSE LET filter == Head(filters)
             result == FilterFilterReaction(filter.rules, reaction.reaction)
             actions == EffectiveActions(filter.actions, default_actions)
         IN  IF ~InScope(filter.scoping, default_scoping, reaction)
             THEN FilterReaction(Tail(filters), default_scoping, default_actions, reaction)
             ELSE IF ~result.ok
             THEN ReactionFilterFailure(filter.name,
                      [i \in 1..Len(IF IsSome(actions) THEN Unwrap(actions) ELSE <<>>) |->
                          MapReactionAction(Unwrap(actions)[i], reaction, filter.name,
                                            result.reason)])
             ELSE FilterReaction(Tail(filters), default_scoping, default_actions, reaction)

----------------------------------------------------------------------------
(* Specification SpecReaction: filter_reaction is called for every bounded  *)
(* list of reaction filters, community defaults and reaction.                *)

ReactionFilters ==
    {ReactionFilter(n, <<DefaultRule("deny", e)>>, sc, a) :
        n \in {"first", "second"},
        e \in {<<"U1F346">>, <<"U1F346", "U1F49C">>},
        sc \in FilterScopings,
        a \in {None, Some(<<Delete>>)}}

ReactionFilterLists ==
    {fs \in SeqsUpTo(ReactionFilters, MaxFilters) :
        \A i \in 1..Len(fs), j \in 1..Len(fs) : i # j => fs[i].name # fs[j].name}

Reactions ==
    {ReactionInfo(1, r, c, 1, Unicode(e)) :
        r \in {<<>>, <<1>>}, c \in Channels, e \in {"U1F346", "U1F49C", "U2764"}}

ReactionDefaultActions ==
    {None, Some(<<SendLog(LogChannel), SendMessage(LogChannel, ReplyTemplate, TRUE)>>)}

CallFilterReaction ==
    /\ args = NoCall
    /\ \E fs \in ReactionFilterLists, ds \in DefaultScopings,
          da \in ReactionDefaultActions, rxn \in Reactions :
          /\ args' = [fn |-> "filter_reaction", filters |-> fs,
                      default_scoping |-> ds, default_actions |-> da,
                      reaction |-> rxn]
          /\ ret' = FilterReaction(fs, ds, da, rxn)
    /\ UNCHANGED <<engineVars, hostVars>>

NextReaction == CallFilterReaction \/ Return

SpecReaction == InitPure /\ [][NextReaction]_vars

\* The filters of a call that are in scope for its reaction and whose rules
\* fail.
FailingReactionFilters ==
    {i \in 1..Len(args.filters) :
        /\ LET scoping == IF args.filters[i].scoping # None
                          THEN args.filters[i].scoping ELSE args.default_scoping
           IN  scoping = None
                  \/ IsIncluded(Unwrap(scoping), args.reaction.channel_id,
                                args.reaction.author_roles)
        /\ ~FilterFilterReaction(args.filters[i].rules, args.reaction.reaction).ok}

\* The templates that apply to a reaction filter: its own, else the
\* community default, else none.
ReactionTemplates(filter, default_actions) ==
    IF filter.actions # None THEN Unwrap(filter.actions)
    ELSE IF default_actions # None THEN Unwrap(default_actions)
    ELSE <<>>

\* The result of a filter_reaction call names the first in-scope filter
\* whose rules fail, with one action per applicable template, in order.
FirstFailingReactionFilter ==
    args.fn = "filter_reaction" =>
        IF FailingReactionFilters = {} THEN ret = Ok
        ELSE LET first == CHOOSE i \in FailingReactionFilters :
                              \A j \in FailingReactionFilters : i <= j
                 templates == ReactionTemplates(args.filters[first], args.default_actions)
             IN  /\ ~ret.ok
                 /\ ret.filter_name = args.filters[first].name
                 /\ Len(ret.actions) = Len(templates)
                 /\ \A k \in 1..Len(templates) :
                        ret.actions[k].action = templates[k].action

\* C22: filter_reaction returns the failure of the first in-scope reaction
\* filter whose rules fail, the filter's own scoping and actions taking
\* precedence over the community defaults as for messages, and a call never
\* changes the spam history.
C22_ReactionPipeline ==
    /\ []FirstFailingReactionFilter
    /\ [][UNCHANGED <<spam_history, queues>>]_vars

\* The first filter is out of scope by its own scoping although the default
\* scoping would include the reaction, and the second one, without actions
\* of its own, fails with the community default actions.
C22_Witness ==
    /\ args.fn = "filter_reaction"
    /\ Len(args.filters) = 2
    /\ args.filters[1].scoping = Some(ScopeChannel1)
    /\ args.default_scoping = Some(ScopeNotRole1)
    /\ args.reaction.channel_id = 2
    /\ ~FilterFilterReaction(args.filters[1].rules, args.reaction.reaction).ok
    /\ args.filters[2].actions = None
    /\ ~ret.ok
    /\ ret.filter_name = args.filters[2].name
    /\ Len(ret.actions) = 2

----------------------------------------------------------------------------
(* Specification SpecRules: filter_values, the MimeType rule and the rule   *)
(* lists of message and reaction filters are evaluated for every bounded    *)
(* input.                                                                   *)

MaxValues == 3

MaxAttachments == 2

MaxRules == 2

\* Observed values and list entries: invite codes, content types, sticker
\* ids (as their decimal strings).
Observable == {"image/png", "text/plain", "7"}

ValueContexts == {"invite", "content type", "sticker"}

ValueLists == {<<>>, <<"image/png">>, <<"text/plain", "7">>}

CallFilterValues ==
    /\ args = NoCall
    /\ \E mode \in {AllowList, DenyList}, context \in ValueContexts,
          values \in SeqsUpTo(Observable, MaxValues), filter_values \in ValueLists :
          /\ args' = [fn |-> "filter_values", mode |-> mode, context |-> context,
                      values |-> values, filter_values |-> filter_values]
          /\ ret' = FilterValues(mode, context, values, filter_values)
    /\ UNCHANGED <<engineVars, hostVars>>

ContentTypes == {None, Some("image/png"), Some("text/plain")}

AttachmentLists == SeqsUpTo({Attachment(t) : t \in ContentTypes}, MaxAttachments)

MimeTypeRules ==
    {MimeTypeRule(mode, types, allow_unknown) :
        mode \in {AllowList, DenyList},
        types \in {<<>>, <<"image/png">>, <<"image/png", "text/plain">>},
        allow_unknown \in BOOLEAN}

CallMimeType ==
    /\ args = NoCall
    /\ \E rule \in MimeTypeRules, attachments \in AttachmentLists :
          /\ args' = [fn |-> "mime_type", rule |-> rule,
                      message |-> MessageInfo(1, 1, 1, <<>>, Str(<<"o", "k">>),
                                              attachments, 0)]
          /\ ret' = RuleFilterMessage(rule, args'.message)
    /\ UNCHANGED <<engineVars, hostVars>>

MessageRules ==
    {WordsRule(<<WordBad>>), WordsRule(<<WordOk>>),
     MimeTypeRule(DenyList, <<"image/png">>, FALSE)}

RuleMessages ==
    {MessageInfo(1, 1, 1, <<>>, c, a, 0) :
        c \in {Str(<<"a", " ", "b", "a", "d">>), Str(<<"o", "k">>),
               Str(<<"o", "k", " ", "b", "a", "d">>), Str(<<"x">>)},
        a \in {<<>>, <<Attachment(Some("image/png"))>>, <<Attachment(None)>>}}

CallMessageFilter ==
    /\ args = NoCall
    /\ \E rules \in SeqsUpTo(MessageRules, MaxRules), message \in RuleMessages :
          /\ args' = [fn |-> "MessageFilter::filter_message", rules |-> rules,
                      message |-> message]
          /\ ret' = FilterFilterMessage(MessageFilter("first", rules, None, None), message)
    /\ UNCHANGED <<engineVars, hostVars>>

ReactionRules ==
    {DefaultRule("deny", <<"U1F346">>), DefaultRule("allow", <<"U1F49C">>),
     DefaultRule("deny", <<"U1F346", "U1F49C">>), CustomNameRule(<<WordBad>>)}

RuleReactions ==
    {Unicode("U1F346"), Unicode("U1F49C"), Custom(5, Some(WordBad)), Custom(6, Some(WordOk))}

CallReactionFilter ==
    /\ args = NoCall
    /\ \E rules \in SeqsUpTo(ReactionRules, MaxRules), reaction \in RuleReactions :
          /\ args' = [fn |-> "ReactionFilter::filter_reaction", rules |-> rules,
                      reaction |-> reaction]
          /\ ret' = FilterFilterReaction(rules, reaction)
    /\ UNCHANGED <<engineVars, hostVars>>

NextRules ==
    \/ CallFilterValues
    \/ CallMimeType
    \/ CallMessageFilter
    \/ CallReactionFilter
    \/ Return

SpecRules == InitPure /\ [][NextRules]_vars

\* C23: a MimeType rule with allow_unknown false fails with `unknown
\* content type for attachment` whenever some attachment has no content
\* type, whatever the mode, the list and the other attachments; otherwise
\* the attachments without a content type are ignored and the rule fails
\* exactly when a known type is absent from the allow list or present in
\* the deny list.
C23_UnknownContentType ==
    args.fn = "mime_type" =>
        LET attachments == args.message.attachments
            known == {i \in 1..Len(attachments) : attachments[i].content_type # None}
            Offends(i) ==
                IF args.rule.mode = AllowList
                THEN Unwrap(attachments[i].content_type) \notin Range(args.rule.types)
                ELSE Unwrap(attachments[i].content_type) \in Range(args.rule.types)
        IN  IF ~args.rule.allow_unknown /\ known # 1..Len(attachments)
            THEN ret = Err(<<"unknown content type for attachment">>)
            ELSE /\ ret.ok <=> ~\E i \in known : Offends(i)
                 /\ ~ret.ok => ret.reason # <<"unknown content type for attachment">>

\* A denied type comes first and an attachment without a content type
\* second: the rule fails for the unknown type, not for the denied one.
C23_Witness ==
    /\ args.fn = "mime_type"
    /\ args.rule = MimeTypeRule(DenyList, <<"image/png">>, FALSE)
    /\ args.message.attachments = <<Attachment(Some("image/png")), Attachment(None)>>
    /\ ret = Err(<<"unknown content type for attachment">>)

\* The positions of the observed values of a filter_values call that are
\* absent from the allow list or present in the deny list.
Offending ==
    {i \in 1..Len(args.values) :
        IF args.mode = AllowList THEN args.values[i] \notin Range(args.filter_values)
        ELSE args.values[i] \in Range(args.filter_values)}

\* The attachments of a MimeType call whose content type is known and is
\* absent from the allow list or present in the deny list.
OffendingAttachments ==
    {i \in 1..Len(args.message.attachments) :
        /\ args.message.attachments[i].content_type # None
        /\ IF args.rule.mode = AllowList
           THEN Unwrap(args.message.attachments[i].content_type)
                    \notin Range(args.rule.types)
           ELSE Unwrap(args.message.attachments[i].content_type)
                    \in Range(args.rule.types)}

\* C24 as claimed, for the content type rule: the rule fails exactly when
\* some observed content type is absent from the allow list or present in
\* the deny list, and passes when no content type is observed.
C24_RuleFailsExactlyOnOffendingValue ==
    args.fn = "mime_type" => (~ret.ok <=> OffendingAttachments # {})

\* C24 amended: the list check of an allow/deny-list rule, filter_values,
\* fails exactly when some observed value is absent from the allow list or
\* present in the deny list, its reason names the first such value in
\* observation order, and without observed values it passes; a content
\* type rule that does not fail for an attachment without content type
\* (allow_unknown, or every type known) fails exactly so, over the
\* attachments that have a content type.
C24_FirstOffendingValue ==
    /\ args.fn = "filter_values" =>
           IF Offending = {} THEN ret = Ok
           ELSE LET first == CHOOSE i \in Offending : \A j \in Offending : i <= j
                IN  ret = Err(<<IF args.mode = AllowList THEN "contains unallowed "
                                ELSE "contains denied ",
                                args.context, " ", "U0060", args.values[first], "U0060">>)
    /\ (/\ args.fn = "mime_type"
        /\ \/ args.rule.allow_unknown
           \/ \A i \in 1..Len(args.message.attachments) :
                  args.message.attachments[i].content_type # None) =>
           IF OffendingAttachments = {} THEN ret = Ok
           ELSE LET first == CHOOSE i \in OffendingAttachments :
                                 \A j \in OffendingAttachments : i <= j
                IN  ret = Err(<<IF args.rule.mode = AllowList THEN "contains unallowed "
                                ELSE "contains denied ",
                                "content type", " ", "U0060",
                                Unwrap(args.message.attachments[first].content_type),
                                "U0060">>)

\* An allowed value is observed first, then two different values that are
\* not allowed: the reason names the first of the two.
C24_Witness ==
    /\ args.fn = "filter_values"
    /\ args.mode = AllowList
    /\ args.filter_values = <<"image/png">>
    /\ args.values = <<"image/png", "7", "text/plain">>
    /\ ~ret.ok
    /\ ret.reason[5] = "7"

\* C25: a filter passes exactly when every one of its rules passes;
\* otherwise its failure is that of the lowest-index failing rule; a filter
\* without rules passes.  For message filters and for reaction filters.
C25_FailFastAnd ==
    /\ args.fn = "MessageFilter::filter_message" =>
           LET failing == {i \in 1..Len(args.rules) :
                              ~RuleFilterMessage(args.rules[i], args.message).ok}
           IN  IF failing = {} THEN ret = Ok
               ELSE ret = RuleFilterMessage(
                              args.rules[CHOOSE i \in failing : \A j \in failing : i <= j],
                              args.message)
    /\ args.fn = "ReactionFilter::filter_reaction" =>
           LET failing == {i \in 1..Len(args.rules) :
                              ~RuleFilterReaction(args.rules[i], args.reaction).ok}
           IN  IF failing = {} THEN ret = Ok
               ELSE ret = RuleFilterReaction(
                              args.rules[CHOOSE i \in failing : \A j \in failing : i <= j],
                              args.reaction)

\* Two rules of a message filter fail with different reasons and the
\* failure of the filter is that of the first.
C25_Witness ==
    /\ args.fn = "MessageFilter::filter_message"
    /\ Len(args.rules) = 2
    /\ ~RuleFilterMessage(args.rules[1], args.message).ok
    /\ ~RuleFilterMessage(args.rules[2], args.message).ok
    /\ RuleFilterMessage(args.rules[1], args.message)
           # RuleFilterMessage(args.rules[2], args.message)
    /\ ret = RuleFilterMessage(args.rules[1], args.message)

----------------------------------------------------------------------------
(* Specification SpecPreview: format_message_preview is called with short   *)
(* and long templates and with contents of one-byte and two-byte            *)
(* characters, in a build that checks integer overflow and in one that      *)
(* wraps.                                                                   *)

MaxContent == 6

\* A template is some text followed by the token; the text is absent, or a
\* run of ASCII characters that leaves 24, 3, 1 and no bytes for the preview.
PreviewTemplates ==
    {<<MESSAGE_PREVIEW>>, Str(<<"h", "i">>)}
    \cup {<<text, MESSAGE_PREVIEW>> : text \in {"Text1960", "Text1981", "Text1983", "Text1990"}}

PreviewContents == SeqsUpTo({"a", "U03C1"}, MaxContent)

CallFormatMessagePreview ==
    /\ args = NoCall
    /\ \E format_string \in PreviewTemplates, content \in PreviewContents,
          checks \in BOOLEAN :
          /\ args' = [fn |-> "format_message_preview", format_string |-> format_string,
                      content |-> content, checks |-> checks]
          /\ ret' = FormatMessagePreview(format_string, content, checks)
    /\ UNCHANGED <<engineVars, hostVars>>

NextPreview == CallFormatMessagePreview \/ Return

SpecPreview == InitPure /\ [][NextPreview]_vars

\* C26: for every template that contains $MESSAGE_PREVIEW and every message
\* content, format_message_preview computes its lengths without unsigned
\* underflow and without failing its assertion, and the substituted message
\* is at most 2000 bytes long.
C26_PreviewFits ==
    (args.fn = "format_message_preview" /\ Contains(args.format_string, MESSAGE_PREVIEW)) =>
        /\ ~ret.panicked
        /\ StrLen(ret.value) <= MAX_CHARS

\* A content longer than what a 1960-byte template leaves is cut at a
\* character boundary and the ellipsis is appended: the case the function
\* handles.
C26_Truncates ==
    /\ args.fn = "format_message_preview"
    /\ args.format_string = <<"Text1960", MESSAGE_PREVIEW>>
    /\ StrLen(args.content) = 2 * MaxContent
    /\ ~ret.panicked
    /\ ret.value[Len(ret.value)] = ELLIPSIS
    /\ StrLen(ret.value) <= MAX_CHARS

----------------------------------------------------------------------------
(* Specification SpecSubstitute: map_filter_action_to_action is called on   *)
(* a SendMessage template with reasons and message contents that may hold   *)
(* the text of a template token.                                            *)

MaxTemplate == 3

\* The reason of the Substring rule: the text that matched, between
\* backticks.
SubstringReason(capture) ==
    Str(<<"contains substring ", "U0060">>) \o capture \o Str(<<"U0060">>)

TemplateAtoms == {"$USER_ID", "$FILTER_REASON", MESSAGE_PREVIEW, "x"}

SubstituteTemplates == SeqsUpTo(TemplateAtoms, MaxTemplate) \ {<<>>}

SubstituteReasons ==
    {Str(<<"contains zalgo">>), SubstringReason(Str(<<"$USER_ID">>)),
     SubstringReason(Str(<<MESSAGE_PREVIEW>>))}

SubstituteContents ==
    {Str(<<"h", "i">>), Str(<<"$FILTER_REASON">>), Str(<<"a", MESSAGE_PREVIEW>>)}

CallMapFilterActionToAction ==
    /\ args = NoCall
    /\ \E content \in SubstituteTemplates, filter_reason \in SubstituteReasons,
          text \in SubstituteContents, checks \in BOOLEAN :
          LET message == MessageInfo(1, 7, 1, {}, text, <<>>, 0)
          IN  /\ args' = [fn |-> "map_filter_action_to_action", content |-> content,
                          filter_reason |-> filter_reason, message |-> message,
                          checks |-> checks]
              /\ ret' = MapFilterActionToAction(SendMessage(1, content, FALSE), message,
                                                "first", filter_reason, "message", checks)
    /\ UNCHANGED <<engineVars, hostVars>>

NextSubstitute == CallMapFilterActionToAction \/ Return

SpecSubstitute == InitPure /\ [][NextSubstitute]_vars

\* The template with every token replaced by its value in one pass: each
\* $USER_ID by the author's id, each $FILTER_REASON by the reason and the
\* first $MESSAGE_PREVIEW by the preview, nothing that was inserted being
\* looked at again.
RECURSIVE Verbatim(_, _, _, _, _)
Verbatim(template, user_id, filter_reason, preview, first) ==
    IF template = <<>> THEN <<>>
    ELSE LET head == Head(template)
             rest(f) == Verbatim(Tail(template), user_id, filter_reason, preview, f)
         IN  IF head = "$USER_ID" THEN user_id \o rest(first)
             ELSE IF head = "$FILTER_REASON" THEN filter_reason \o rest(first)
             ELSE IF head = MESSAGE_PREVIEW /\ first THEN preview \o rest(FALSE)
             ELSE <<head>> \o rest(first)

\* C27: the content of the message that a SendMessage template produces is
\* the template with $USER_ID, $FILTER_REASON and $MESSAGE_PREVIEW replaced
\* by the author's id, the filter reason and the message content, each
\* appearing verbatim: no token inside an inserted value is expanded.
C27_InsertedTextIsVerbatim ==
    (args.fn = "map_filter_action_to_action" /\ ~ret.panicked) =>
        ret.value.content = Verbatim(args.content, IdToString(args.message.author_id),
                                     args.filter_reason, args.message.content, TRUE)

\* A message content that holds the text of tokens is inserted last and
\* stays as it is.
C27_ContentVerbatim ==
    /\ args.fn = "map_filter_action_to_action"
    /\ args.content = <<"$FILTER_REASON", "x", MESSAGE_PREVIEW>>
    /\ args.filter_reason = Str(<<"contains zalgo">>)
    /\ args.message.content = Str(<<"a", MESSAGE_PREVIEW>>)
    /\ ~ret.panicked
    /\ ret.value.content = <<"contains zalgo", "x", "a", MESSAGE_PREVIEW>>

----------------------------------------------------------------------------
(* Specification SpecSaturate: exceeds_spam_thresholds over records with    *)
(* counts up to u8::MAX and over histories of more than u8::MAX records,    *)
(* so that every metric's sum and the duplicate count pass u8::MAX.         *)

\* The length of the longest history: one more than u8::MAX.
MaxRun == 256

\* A count that passes u8::MAX when added to itself.
BigCount == 200

SaturatingCounts == {0, 1, BigCount, U8Max}

SaturatingCurrentRecords ==
    {SpamRecord(c, e, l, e, l, m, 0) :
        c \in Contents, e \in SaturatingCounts, l \in SaturatingCounts,
        m \in {0, BigCount}}

SaturatingHistoryRecords ==
    {SpamRecord("x", 1, 0, BigCount, U8Max, 1, 0),
     SpamRecord("y", BigCount, U8Max, 1, 0, BigCount, 0),
     SpamRecord("x", 0, 0, 0, 0, 0, 0)}

\* `n` records `record`.
Run(record, n) == [i \in 1..n |-> record]

SaturatingHistories ==
    SeqsUpTo(SaturatingHistoryRecords, MaxHist)
    \cup {Run(record, n) : record \in SaturatingHistoryRecords,
                           n \in (MaxRun - 2)..MaxRun}

CallSpamSums ==
    /\ args = NoCall
    /\ \E h \in SaturatingHistories, r \in SaturatingCurrentRecords :
          LET c == SpamFilter(Some(BigCount), None, Some(U8Max), None, None,
                              Some(U8Max - 1), 30, None, None)
          IN  /\ args' = [fn |-> "exceeds_spam_thresholds", history |-> h,
                          current_record |-> r, config |-> c]
              /\ ret' = [sums |-> SpamSums(h, r),
                         result |-> ExceedsSpamThresholds(h, r, c)]
    /\ UNCHANGED <<engineVars, hostVars>>

NextSaturate == CallSpamSums \/ Return

SpecSaturate == InitPure /\ [][NextSaturate]_vars

\* The sum of a metric over the history and the current record, in the
\* integers.
ExactWindowSum(metric) == args.current_record[metric] + ExactSum(args.history, metric)

\* The number of records with the content of the current record, itself
\* included, in the integers.
ExactDuplicates ==
    1 + Cardinality({i \in 1..Len(args.history) :
            args.history[i].content = args.current_record.content})

\* Thresholds below 255: the smallest, the largest and two between.
SaturatingThresholds == {0, 1, BigCount, U8Max - 1}

\* C28: every window sum and the duplicate count that
\* exceeds_spam_thresholds computes is the smaller of 255 and the exact sum
\* over the history and the current record; a threshold below 255 that the
\* exact sum exceeds is exceeded by the computed sum.
C28_SumsSaturate ==
    args.fn = "exceeds_spam_thresholds" =>
        /\ \A metric \in Metrics :
              /\ ret.sums[metric] = WindowSum(metric)
              /\ \A threshold \in SaturatingThresholds :
                    ExactWindowSum(metric) > threshold => ret.sums[metric] > threshold
        /\ ret.sums.duplicates = DuplicateCount
        /\ \A threshold \in SaturatingThresholds :
              ExactDuplicates > threshold => ret.sums.duplicates > threshold

\* The exact sum of a metric, and the exact number of duplicates, pass 255
\* and the computed values are 255; the duplicate threshold of 254 is
\* reported as exceeded.
C28_Witness ==
    /\ args.fn = "exceeds_spam_thresholds"
    /\ ExactWindowSum("links") > U8Max
    /\ ret.sums.links = U8Max
    /\ ExactDuplicates > U8Max
    /\ ret.sums.duplicates = U8Max
    /\ ret.result = Err(ReasonOf.duplicates)

----------------------------------------------------------------------------
(* Specification SpecValidate: load_config reads files whose guild          *)
(* configurations carry scopings, valid and not, in the community default,  *)
(* the spam filter, a message filter and a reaction filter.                 *)

\* The scoping of one place: absent, channels included, channels and roles
\* excluded, channels both included and excluded, and an empty list.
ValidateScopings ==
    {None,
     Some([include_channels |-> Some(<<1>>), exclude_channels |-> None,
           exclude_roles |-> None]),
     Some([include_channels |-> None, exclude_channels |-> Some(<<1>>),
           exclude_roles |-> Some(<<1>>)]),
     Some([include_channels |-> Some(<<1>>), exclude_channels |-> Some(<<2>>),
           exclude_roles |-> None]),
     Some([include_channels |-> Some(<<>>), exclude_channels |-> None,
           exclude_roles |-> None])}

ValidateGuilds ==
    {[EmptyGuildConfig EXCEPT
        !.default_scoping = ds,
        !.spam = sp,
        !.messages = Some(<<MessageFilter("first", <<WordsRule(<<WordBad>>)>>, ms,
                                          Some(<<Delete>>))>>),
        !.reactions = Some(<<ReactionFilter("deny", <<DefaultRule("deny", <<"U1F600">>)>>,
                                            rs, Some(<<Delete>>))>>)] :
        ds \in ValidateScopings, ms \in ValidateScopings, rs \in ValidateScopings,
        sp \in {None} \cup {Some(SpamFilter(Some(Thr), None, None, None, None, None, 30,
                                            Some(<<Delete>>), ss)) :
                               ss \in ValidateScopings}}

ValidateFiles == {Missing, Malformed} \cup {File(guild) : guild \in ValidateGuilds}

CallLoadConfig ==
    /\ args = NoCall
    /\ \E file \in ValidateFiles :
          /\ args' = [fn |-> "load_config", file |-> file]
          /\ ret' = LoadConfig(file)
    /\ UNCHANGED <<engineVars, hostVars>>

NextValidate == CallLoadConfig \/ Return

SpecValidate == InitPure /\ [][NextValidate]_vars

\* The scopings a guild configuration holds: the community default, that of
\* the spam filter and those of the message and reaction filters.
ScopingsOf(guild) ==
    LET OfFilters(filters) ==
            IF IsSome(filters)
            THEN UNION {Unwrap(filters)[i].scoping : i \in 1..Len(Unwrap(filters))}
            ELSE {}
    IN  guild.default_scoping
        \cup (IF IsSome(guild.spam) THEN Unwrap(guild.spam).scoping ELSE {})
        \cup OfFilters(guild.messages)
        \cup OfFilters(guild.reactions)

SetsBoth(scoping) == IsSome(scoping.include_channels) /\ IsSome(scoping.exclude_channels)

\* C29: a configuration that load_config accepts holds no Scoping with both
\* include_channels and exclude_channels, and a file whose configuration
\* holds such a Scoping is rejected by validation, with an error for it.
C29_IncludeExcludeExclusive ==
    args.fn = "load_config" =>
        /\ ret.ok => \A scoping \in ScopingsOf(ret.config) : ~SetsBoth(scoping)
        /\ (args.file.file = "yaml" /\ \E scoping \in ScopingsOf(args.file.guild) : SetsBoth(scoping))
              => /\ ret = Err("validate")
                 /\ \E error \in ValidationErrors(args.file.guild) :
                       error[3] = "both"

\* A file whose only fault is a reaction filter that both includes and
\* excludes channels is rejected.
C29_Witness ==
    /\ args.fn = "load_config"
    /\ args.file.file = "yaml"
    /\ ValidationErrors(args.file.guild)
           = {<<<<"reactions", 1>>, "exclude_channels and include_channels", "both">>}
    /\ IsSome(args.file.guild.spam)
    /\ ret = Err("validate")

----------------------------------------------------------------------------
(* Specification SpecDefaults: the handler of SpecHost, started also with   *)
(* configurations whose message filter and spam filter have no action list  *)
(* of their own and rely on the community default actions.                  *)

\* A configuration with the action lists of its message filter and of its
\* spam filter left out.
WithoutOwnActions(cfg) ==
    [cfg EXCEPT
        !.messages = Some(<<[Unwrap(@)[1] EXCEPT !.actions = None]>>),
        !.spam = IF @ = None THEN None ELSE Some([Unwrap(@) EXCEPT !.actions = None])]

DefaultsConfigs == HostConfigs \cup {WithoutOwnActions(cfg) : cfg \in HostConfigs}

InitSpecDefaults ==
    /\ args = NoCall
    /\ ret = NoCall
    /\ guild_config = EmptyConfig
    /\ InitEngine
    /\ clock = 0
    /\ armed \in BOOLEAN
    /\ \E cfg \in DefaultsConfigs :
           guild_cfgs = [g \in Guilds |-> IF g = 1 THEN cfg ELSE EmptyGuildConfig]
    /\ cfgs_lock = FreeLock
    /\ cmd_ids = [g \in Guilds |-> None]
    /\ handlers = [h \in Handlers |-> IdleHandler]
    /\ reload = IdleReload

SpecDefaults == InitSpecDefaults /\ [][NextHost]_vars

\* The handlers whose message has failed a filter or the spam check and that
\* have not returned yet.
FailedMessage ==
    {h \in Handlers : /\ handlers[h].pc \in {"acting", "awaiting", "reporting"}
                      /\ handlers[h].event.kind = "message"}

\* The action list of the filter that a handler's message failed: that of
\* the spam configuration, or that of the message filter of that name.
OwnActions(h) ==
    LET cfg == guild_cfgs[handlers[h].event.guild]
        filters == Unwrap(cfg.messages)
    IN  IF handlers[h].filter_name = "Spam" THEN Unwrap(cfg.spam).actions
        ELSE filters[CHOOSE i \in 1..Len(filters) :
                        filters[i].name = handlers[h].filter_name].actions

\* C30: when the message filter or the spam configuration that a message
\* fails has no action list of its own, the actions that the handler
\* executes are the default actions of the community.
C30_DefaultActionsExecuted ==
    \A h \in FailedMessage :
        OwnActions(h) = None =>
            handlers[h].actions
                = Unwrap(guild_cfgs[handlers[h].event.guild].default_actions)

\* A message has failed a filter without actions of its own in a community
\* with default actions, and the handler is at its report with no request
\* sent.
C30_NothingExecuted ==
    \E h \in FailedMessage :
        /\ OwnActions(h) = None
        /\ guild_cfgs[handlers[h].event.guild].default_actions = Some(<<SendLog(LogChannel)>>)
        /\ handlers[h].pc = "reporting"
        /\ handlers[h].issued = <<>>

----------------------------------------------------------------------------
(* Specification SpecUnscoped: the handler of SpecHost, started also with   *)
(* configurations without a default scoping, whose spam filter has no       *)
(* scoping of its own either.                                               *)

\* The process before any event, with the configuration of guild 1 drawn
\* from `configs`.
InitWithConfigs(configs) ==
    /\ args = NoCall
    /\ ret = NoCall
    /\ guild_config = EmptyConfig
    /\ InitEngine
    /\ clock = 0
    /\ armed \in BOOLEAN
    /\ \E cfg \in configs :
           guild_cfgs = [g \in Guilds |-> IF g = 1 THEN cfg ELSE EmptyGuildConfig]
    /\ cfgs_lock = FreeLock
    /\ cmd_ids = [g \in Guilds |-> None]
    /\ handlers = [h \in Handlers |-> IdleHandler]
    /\ reload = IdleReload

UnscopedConfigs == HostConfigs \cup {[cfg EXCEPT !.default_scoping = None] : cfg \in HostConfigs}

InitSpecUnscoped == InitWithConfigs(UnscopedConfigs)

SpecUnscoped == InitSpecUnscoped /\ [][NextHost]_vars

\* The handler `h` evaluates a message that is not skipped as a bot's and
\* that fails no message filter, in a guild with a spam configuration whose
\* effective scoping does not exclude it: the case in which
\* spam_check_message of message.rs runs the tracker.
SpamCheckDue(h) ==
    /\ handlers[h].pc = "evaluating"
    /\ handlers[h].event.kind = "message"
    /\ LET event == handlers[h].event
           cfg == guild_cfgs[event.guild]
       IN  /\ ~(event.author_is_bot /\ ~cfg.include_bots)
           /\ cfg.messages # None
           /\ FirstFailing(Unwrap(cfg.messages), cfg.default_scoping, event.message, 1) = 0
           /\ cfg.spam # None
           /\ InScope(Unwrap(cfg.spam).scoping, cfg.default_scoping, event.message)

\* C31: in the handler's message path, when no filter failed and a spam
\* configuration exists, the spam tracker runs (a record of the message is
\* appended to the author's queue) unless the effective scoping excludes
\* the message, also when no scoping is configured at all.
C31_SpamRunsUnlessExcluded ==
    [][\A h \in Handlers :
          (SpamCheckDue(h) /\ handlers'[h].pc # "evaluating") => queues' # queues]_vars

\* A message that fails no filter has been handled in a guild with a spam
\* configuration and no scoping at all, and no record of it was kept.
C31_UnscopedSpamSkipped ==
    \E h \in Handlers :
        /\ handlers[h].pc = "returned"
        /\ handlers[h].event.kind = "message"
        /\ ~handlers[h].event.author_is_bot
        /\ handlers[h].event.message.content = Str(<<"o", "k">>)
        /\ LET cfg == guild_cfgs[handlers[h].event.guild]
           IN  /\ cfg.spam # None
               /\ Unwrap(cfg.spam).scoping = None
               /\ cfg.default_scoping = None
        /\ queues = <<>>

----------------------------------------------------------------------------
(* The reaction path of the handler, under SpecHost *)

\* The handlers that are executing the actions of a reaction filter.
ActingOnReaction ==
    {h \in Handlers : /\ handlers[h].pc \in {"acting", "awaiting", "reporting"}
                      /\ handlers[h].event.kind = "reaction"}

\* C32: the handler of a reaction executes the actions of one reaction
\* filter only, the first filter in scope that fails; no later filter is
\* evaluated and acted on.
C32_OnlyFirstFailingFilterActs ==
    \A h \in ActingOnReaction :
        handlers[h].filter
            = NextFailing(guild_cfgs[handlers[h].event.guild], handlers[h].event, 1)

\* The handler has sent a request for the first failing filter and is now
\* executing the actions of the second filter, which the reaction fails
\* too.
C32_SecondFilterActs ==
    \E h \in ActingOnReaction :
        /\ NextFailing(guild_cfgs[handlers[h].event.guild], handlers[h].event, 1) = 1
        /\ handlers[h].filter = 2
        /\ handlers[h].issued # <<>>
        /\ handlers[h].pc = "awaiting"

----------------------------------------------------------------------------
(* Specification SpecAuthors: NumTasks tasks, each checking one message of  *)
(* one of two authors that the spam history already holds, under every      *)
(* interleaving.  The messages were sent at time 0 or 1 and are checked at  *)
(* time 1, so no record is pruned.                                          *)

\* The authors the map holds from the start, each with a queue of its own.
SeenAuthors == {1, 2}

AuthorsMessages ==
    {MessageInfo(1, a, 1, <<>>, Str(<<"x">>), <<>>, ts) : a \in SeenAuthors, ts \in {0, 1}}

InitAuthors ==
    /\ args = NoCall
    /\ ret = NoCall
    /\ guild_config = ConcConfig
    /\ spam_history = [a \in Authors |-> IF a \in SeenAuthors THEN Some(a) ELSE None]
    /\ queues = [a \in SeenAuthors |-> NewQueue]
    /\ rwlock = [readers |-> {}, writer |-> None, waiters |-> <<>>]
    /\ tasks = [t \in Tasks |-> IdleTask]
    /\ InitHost

NextAuthors ==
    \E t \in Tasks :
        \/ \E m \in AuthorsMessages : Call(t, m, AsMicros(1))
        \/ AcquireRead(t)
        \/ Lookup(t)
        \/ LockQueue(t)
        \/ CheckAndPush(t)

SpecAuthors == InitAuthors /\ [][NextAuthors]_vars

\* The task neither holds nor awaits the lock of the map.
OffTheMap(t) ==
    /\ t \notin rwlock.readers
    /\ rwlock.writer # Some(t)
    /\ \A k \in 1..Len(rwlock.waiters) : rwlock.waiters[k][1] # t

\* A task that is about to lock a queue, or holds the lock of one, holds no
\* lock of the map; and the queue that the check of another author waits
\* for is not the one it holds.
QueueLocksIndependent ==
    \A t \in Tasks :
        /\ tasks[t].pc \in {"have_queue", "locked"} => OffTheMap(t)
        /\ tasks[t].pc = "locked" =>
              \A u \in Tasks \ {t} :
                  (tasks[u].pc = "have_queue" /\ Author(u) # Author(t)) =>
                      /\ queues[tasks[u].author_spam_history].locked_by # Some(t)
                      /\ ENABLED LockQueue(u)
                             \/ \E v \in Tasks \ {t, u} :
                                   queues[tasks[u].author_spam_history].locked_by = Some(v)

\* A step of the check of a task leaves the queue of every other author as
\* it was.
OtherQueuesUnchanged ==
    \A t \in Tasks :
        tasks'[t] # tasks[t] =>
            \A b \in SeenAuthors \ {tasks'[t].message.author_id} :
                queues'[Unwrap(spam_history[b])].records
                    = queues[Unwrap(spam_history[b])].records

\* C33: for two authors that the map holds, a task that holds the lock of
\* the queue of one holds no lock of the map and does not hold the queue
\* that a check of the other waits for, and its check leaves the queue of
\* the other author unchanged.
C33_AuthorsDoNotContend ==
    /\ []QueueLocksIndependent
    /\ [][OtherQueuesUnchanged]_vars

\* One task holds the lock of the queue of author 1 while another is about
\* to lock the queue of author 2, which a third task has already extended.
C33_Witness ==
    \E t \in Tasks, u \in Tasks :
        /\ tasks[t].pc = "locked" /\ Author(t) = 1
        /\ tasks[u].pc = "have_queue" /\ Author(u) = 2
        /\ queues[Unwrap(spam_history[2])].records # <<>>
        /\ ENABLED LockQueue(u)


\* The records of a queue are in the order of their sent_at, oldest first.
Chronological(records) ==
    \A i \in 1..Len(records), j \in 1..Len(records) :
        i < j => records[i].sent_at <= records[j].sent_at

\* C34: in every reachable state the queue of every author is
\* chronological: the sent_at of its records never decreases from the front
\* to the back, whatever the interleaving of the checks and whether a check
\* is for a new message or for an edited one.
C34_QueuesChronological ==
    \A q \in DOMAIN queues : Chronological(queues[q].records)

\* The queue of author 1 holds the record of a message sent at second 1 in
\* front of the record of a message sent at second 0: the check of the
\* earlier message (a slower task, or an edit of an old message, which
\* carries the timestamp of the original) came second.
C34_OutOfOrder ==
    /\ Len(queues[Unwrap(spam_history[1])].records) = 2
    /\ queues[Unwrap(spam_history[1])].records[1].sent_at = AsMicros(1)
    /\ queues[Unwrap(spam_history[1])].records[2].sent_at = AsMicros(0)

----------------------------------------------------------------------------
(* Specification SpecRecord: SpamRecord::from_message on short messages and *)
(* on messages of up to MaxRun emoji or spoilers.                           *)

RecordContents ==
    SeqsUpTo({"U1F600", "||spoiler||", "<@1>", "a"}, MaxHist + 1)
    \cup {Run(atom, n) : atom \in {"U1F600", "||spoiler||"}, n \in (MaxRun - 2)..MaxRun}

CallFromMessage ==
    /\ args = NoCall
    /\ \E content \in RecordContents, attachments \in AttachmentLists :
          LET message == MessageInfo(1, 1, 1, <<>>, content, attachments, 0)
          IN  /\ args' = [fn |-> "SpamRecord::from_message", message |-> message]
              /\ ret' = SpamRecordFromMessage(message)
    /\ UNCHANGED <<engineVars, hostVars>>

NextRecord == CallFromMessage \/ Return

SpecRecord == InitPure /\ [][NextRecord]_vars

\* A count clamped to the largest u8.
Clamped(n) == IF n > U8Max THEN U8Max ELSE n

\* C35: every count of the record of a message is the true count of the
\* message clamped to 255; a count above 255 is stored as 255.
C35_CountsClamped ==
    args.fn = "SpamRecord::from_message" =>
        /\ ret.emoji = Clamped(CountMatches(args.message.content, EmojiAtoms))
        /\ ret.links = Clamped(CountMatches(args.message.content, LinkAtoms))
        /\ ret.attachments = Clamped(Len(args.message.attachments))
        /\ ret.spoilers = Clamped(CountMatches(args.message.content, SpoilerAtoms))
        /\ ret.mentions = Clamped(CountMatches(args.message.content, MentionAtoms))

\* A message of 256 emoji gets a record that counts none.
C35_Wraps ==
    /\ args.fn = "SpamRecord::from_message"
    /\ CountMatches(args.message.content, EmojiAtoms) = U8Max + 1
    /\ ret.emoji = 0


\* The handlers whose event was caused by a bot in a guild that does not
\* include bots.
HandlingIgnoredBot ==
    {h \in Busy : /\ handlers[h].event.author_is_bot
                   /\ ~guild_cfgs[handlers[h].event.guild].include_bots}

\* C36: the handler of a message or reaction of a bot, in a guild whose
\* include_bots is false, evaluates no filter and executes no action (it
\* goes from its evaluation to its return with Ok and sends no request),
\* and none of its steps changes the spam history.
C36_BotsIgnored ==
    /\ [](\A h \in HandlingIgnoredBot :
             /\ handlers[h].pc \in {"await_cfgs", "evaluating", "returned"}
             /\ handlers[h].issued = <<>>
             /\ handlers[h].pc = "returned" => handlers[h].result = Ok)
    /\ [][\A h \in HandlingIgnoredBot :
             handlers'[h] # handlers[h] => UNCHANGED <<spam_history, queues>>]_vars

\* The handler has returned from a bot's message that holds a filtered
\* word, in a guild with a spam filter, without a request and without a
\* record.
C36_Witness ==
    \E h \in HandlingIgnoredBot :
        /\ handlers[h].pc = "returned"
        /\ handlers[h].event.kind = "message"
        /\ handlers[h].event.message.content = Str(<<"a", " ", "b", "a", "d">>)
        /\ guild_cfgs[handlers[h].event.guild].spam # None
        /\ queues = <<>>

----------------------------------------------------------------------------
(* Specification SpecReady: the handler of the Ready event registers the    *)
(* commands of every guild while the main loop reloads the configurations.  *)
(* The lock of cmd_ids has writers only; it is held by the reload from its  *)
(* cmd_ids.write() to its return and by the Ready handler from its          *)
(* cmd_ids.write() to its return.                                           *)

\* Event::Ready
ReadyEvent == [kind |-> "ready", guild |-> 1]

\* The reload holds the write guard of cmd_ids.
ReloadHoldsCmdIds == reload.pc \in {"await_write", "updating"}

\* The handler holds the write guard of cmd_ids.
HandlerHoldsCmdIds(h) == handlers[h].pc = "registering"

\* handle_event, Event::Ready: with the read guard of guild_cfgs in hand the
\* handler asks for cmd_ids.write().
ReadyRequestCmdIds(h) ==
    /\ handlers[h].pc = "evaluating"
    /\ handlers[h].event.kind = "ready"
    /\ handlers' = [handlers EXCEPT ![h].pc = "await_cmd_ids"]
    /\ UNCHANGED <<actRest, cfgs_lock>>

\* cmd_ids.write().await completes in the Ready handler.
ReadyAcquireCmdIds(h) ==
    /\ handlers[h].pc = "await_cmd_ids"
    /\ ~ReloadHoldsCmdIds
    /\ \A other \in Handlers : ~HandlerHoldsCmdIds(other)
    /\ handlers' = [handlers EXCEPT ![h] =
            [@ EXCEPT !.pc = "registering"] @@ [pending |-> Guilds]]
    /\ UNCHANGED <<actRest, cfgs_lock>>

\* One turn of the loop of the Ready handler: the commands of a guild are
\* registered and its command id is stored; a failing call returns the
\* error; after the last guild the handler returns.
ReadyUpdateCommands(h, guild_id, ok) ==
    /\ handlers[h].pc = "registering"
    /\ IF handlers[h].pending = {}
       THEN /\ ok
            /\ guild_id = 1
            /\ Returns(h, Ok)
            /\ UNCHANGED cmd_ids
       ELSE /\ guild_id \in handlers[h].pending
            /\ LET updated == UpdateGuildCommands(None, guild_cfgs[guild_id].slash_commands,
                                                  None)
               IN  /\ updated.calls \/ ok
                   /\ IF ok
                      THEN /\ cmd_ids' = [cmd_ids EXCEPT ![guild_id] = updated.value]
                           /\ handlers' = [handlers EXCEPT ![h].pending = @ \ {guild_id}]
                           /\ UNCHANGED cfgs_lock
                      ELSE /\ Returns(h, Err(<<"http">>))
                           /\ UNCHANGED cmd_ids
    /\ UNCHANGED <<engineRest, spam_history, queues, clock, armed, guild_cfgs, reload>>

\* reload_guild_configs is called: the files are loaded; on success the
\* reload asks for cmd_ids.write().
ReloadRequestCmdIds(files, has_application_id) ==
    /\ reload.pc = "idle"
    /\ LET loaded == LoadGuildConfigs(files)
       IN  IF loaded.ok
           THEN reload' = [pc |-> "await_cmd_ids", files |-> files,
                           new_guild_configs |-> loaded.configs,
                           has_application_id |-> has_application_id]
           ELSE reload' = [pc |-> "returned", files |-> files, result |-> loaded]
    /\ UNCHANGED <<hostRest, guild_cfgs, cmd_ids, cfgs_lock>>

\* cmd_ids.write().await completes in the reload, which then asks for
\* guild_cfgs.write().
ReloadAcquireCmdIds ==
    /\ reload.pc = "await_cmd_ids"
    /\ \A h \in Handlers : ~HandlerHoldsCmdIds(h)
    /\ reload' = [reload EXCEPT !.pc = "await_write"]
    /\ cfgs_lock' = [cfgs_lock EXCEPT !.waiters = Append(@, <<0, "write">>)]
    /\ UNCHANGED <<hostRest, guild_cfgs, cmd_ids>>

\* The steps of the Ready handler.
ReadyStep(h) ==
    \/ AcquireCfgsRead(h)
    \/ ReadyRequestCmdIds(h)
    \/ ReadyAcquireCmdIds(h)
    \/ \E guild_id \in Guilds, ok \in BOOLEAN : ReadyUpdateCommands(h, guild_id, ok)

\* The steps of a reload after its files are loaded.
ReloadStep ==
    \/ ReloadAcquireCmdIds
    \/ AcquireCfgsWrite
    \/ \E guild_id \in Guilds, ok \in BOOLEAN : UpdateCommands(guild_id, ok)
    \/ Swap

NextReady ==
    \/ Spawn(1, ReadyEvent)
    \/ ReadyStep(1)
    \/ Retire(1)
    \/ \E files \in [Guilds -> ReloadFiles], has_application_id \in BOOLEAN :
           ReloadRequestCmdIds(files, has_application_id)
    \/ ReloadStep
    \/ ReloadDone

SpecReady == InitSpecReload /\ [][NextReady]_vars

\* The Ready handler or the reload is under way.
UnderWay ==
    \/ handlers[1].pc \notin {"idle", "returned", "panicked"}
    \/ reload.pc \notin {"idle", "returned"}

\* C37: the Ready handler and reload_guild_configs never deadlock: in every
\* state in which one of them is under way, one of them can take a step.
C37_NoDeadlock == UnderWay => ENABLED (ReadyStep(1) \/ ReloadStep)

\* The Ready handler holds the read guard of guild_cfgs and waits for
\* cmd_ids, which the reload holds while it waits for the write guard of
\* guild_cfgs.
C37_Deadlocked ==
    /\ handlers[1].pc = "await_cmd_ids"
    /\ 1 \in cfgs_lock.readers
    /\ reload.pc = "await_write"
    /\ cfgs_lock.waiters = <<<<0, "write">>>>

----------------------------------------------------------------------------
(* Specification SpecMain: the loop of main.  It receives gateway events    *)
(* and spawns their handlers, reloads the configurations at every tick of   *)
(* the interval and reports a failed reload to the guild it failed for.     *)

\* A guild with filters and a notification channel, and one with neither.
NotifyingConfig ==
    FilteringConfig @@ [notifications |-> Some([channel |-> LogChannel, ping_roles |-> None])]

QuietConfig == EmptyGuildConfig @@ [notifications |-> None]

MainFiles == {Missing, File(NotifyingConfig), File(QuietConfig)}

InitSpecMain ==
    /\ args = NoCall
    /\ ret = NoCall
    /\ guild_config = EmptyConfig
    /\ InitEngine
    /\ clock = 0
    /\ armed = TRUE
    /\ guild_cfgs \in [Guilds -> {NotifyingConfig, QuietConfig}]
    /\ cfgs_lock = FreeLock
    /\ cmd_ids = [g \in Guilds |-> None]
    /\ handlers = [h \in Handlers |-> IdleHandler]
    /\ reload = IdleReload

\* select!, Some(event) = events.next(): the handler of the event is
\* spawned.
MainReceivesEvent(h, event) ==
    /\ reload.pc = "idle"
    /\ Spawn(h, event)

\* select!, interval.tick(): reload_guild_configs is called.
MainTick(files, has_application_id) == StartReload(files, has_application_id)

\* The reload returned Ok: the loop goes on.
MainReloadSucceeded ==
    /\ reload.pc = "returned"
    /\ reload.result.ok
    /\ reload' = IdleReload
    /\ UNCHANGED <<hostRest, guild_cfgs, cmd_ids, cfgs_lock>>

\* The reload returned an error for a guild: send_notification_to_guild
\* reads the configuration of the guild and, when it has a notification
\* channel, sends the message; `?` returns a failure of the send from main.
MainReportsFailure(sent) ==
    /\ reload.pc = "returned"
    /\ ~reload.result.ok
    /\ cfgs_lock.writer = None
    /\ cfgs_lock.waiters = <<>>
    /\ LET guild_id == reload.result.reason[1]
       IN  IF IsSome(guild_cfgs[guild_id].notifications)
           THEN reload' = IF sent THEN IdleReload ELSE [pc |-> "exited"]
           ELSE sent /\ reload' = IdleReload
    /\ UNCHANGED <<hostRest, guild_cfgs, cmd_ids, cfgs_lock>>

NextMain ==
    \/ \E event \in ReloadEvents : MainReceivesEvent(1, event)
    \/ HandlerStep(1)
    \/ Retire(1)
    \/ \E files \in [Guilds -> MainFiles], has_application_id \in BOOLEAN :
           MainTick(files, has_application_id)
    \/ AcquireCfgsWrite
    \/ \E guild_id \in Guilds, ok \in BOOLEAN : UpdateCommands(guild_id, ok)
    \/ Swap
    \/ MainReloadSucceeded
    \/ \E sent \in BOOLEAN : MainReportsFailure(sent)

SpecMain == InitSpecMain /\ [][NextMain]_vars

\* C38: after a reload has failed, whatever the outcome of reporting the
\* failure to the guild, the loop of main is back at its select, where it
\* receives events and later ticks.
C38_LoopSurvivesFailedReload ==
    [][(reload.pc = "returned" /\ ~reload.result.ok /\ reload' # reload)
           => reload' = IdleReload]_vars

\* The notification of a failed reload could not be sent and main has
\* returned: no event is received and no tick reloads any more.
C38_LoopStopped ==
    /\ reload.pc = "exited"
    /\ handlers[1].pc = "idle"
    /\ ~ENABLED (\E event \in ReloadEvents : MainReceivesEvent(1, event))
    /\ ~ENABLED (\E files \in [Guilds -> MainFiles], has_application_id \in BOOLEAN :
                    MainTick(files, has_application_id))

----------------------------------------------------------------------------
(* Specification SpecFrame: one task handles the messages of one author one *)
(* after the other, at time 0 and at time MaxTime, when every earlier        *)
(* record has expired; the community has a word filter and a spam filter    *)
(* with and without a scoping.                                              *)

FrameConfigs ==
    {[messages |-> <<MessageFilter("first", <<WordsRule(<<WordBad>>)>>, None,
                                   Some(<<Delete>>))>>,
      spam |-> Some(SpamFilter(None, None, None, None, None, Some(1), WindowInterval,
                               Some(<<Delete>>), s)),
      default_scoping |-> None, default_actions |-> None] :
        s \in {None, Some(ScopeNotRole1)}}

FrameMessages ==
    {MessageInfo(1, 1, 1, roles, content, <<>>, 0) :
        roles \in {<<>>, <<1>>},
        content \in {Str(<<"b", "a", "d">>), Str(<<"o", "k">>), Str(<<"h", "i">>)}}

InitFrame ==
    /\ args = NoCall
    /\ ret = NoCall
    /\ guild_config \in FrameConfigs
    /\ InitEngine
    /\ InitHost

NextFrame ==
    \/ /\ Recorded < MaxRecords
       /\ \E m \in FrameMessages, now \in {0, MaxTime} : Call(1, m, AsMicros(now))
    \/ TaskStep(1)
    \/ Finish(1)

SpecFrame == InitFrame /\ [][NextFrame]_vars

\* The spam check of a message is due: no message filter fails on it and
\* the effective scoping of the spam filter does not exclude it.
SpamDue(message) ==
    /\ FilterMessage(guild_config.messages, guild_config.default_scoping,
                     guild_config.default_actions, message, "message create", TRUE).value.ok
    /\ guild_config.spam # None
    /\ InScope(Unwrap(guild_config.spam).scoping, guild_config.default_scoping, message)

\* C39: the spam history (the map of the authors and their queues) changes
\* only in a step of a call whose spam check is due; a call that ends with
\* the failure of a message filter, or whose spam scoping excludes the
\* message, creates no entry and appends and prunes no record.
C39_OnlySpamCheckTouchesHistory ==
    /\ [](\A t \in Tasks :
             (tasks[t].pc = "done" /\ ~SpamDue(tasks[t].message)) => ~tasks[t].spam_ran)
    /\ [][<<spam_history, queues>>' # <<spam_history, queues>> =>
             \E t \in Tasks : /\ tasks[t].pc # "idle"
                              /\ tasks'[t] # tasks[t]
                              /\ SpamDue(tasks[t].message)]_vars

\* A call at time MaxTime has ended with the failure of the word filter,
\* and the queue of the author still holds a record that has expired.
C39_Witness ==
    /\ tasks[1].pc = "done"
    /\ ~tasks[1].spam_ran
    /\ ~tasks[1].result.value.ok
    /\ tasks[1].now = AsMicros(MaxTime)
    /\ spam_history[1] # None
    /\ \E r \in Range(queues[Unwrap(spam_history[1])].records) :
           IsExpired(r, tasks[1].now, Unwrap(guild_config.spam))

----------------------------------------------------------------------------
(* Specification SpecSpamThresholds: validate_guild_config checks guilds whose  *)
(* spam filter sets every subset of its six thresholds, with and without    *)
(* actions of its own.                                                      *)

ThresholdOptions == {None, Some(Thr)}

ThresholdGuilds ==
    {[EmptyGuildConfig EXCEPT
        !.spam = Some(SpamFilter(e, l, a, s, m, d, 30, actions, None))] :
        e \in ThresholdOptions, l \in ThresholdOptions, a \in ThresholdOptions,
        s \in ThresholdOptions, m \in ThresholdOptions, d \in ThresholdOptions,
        actions \in {None, Some(<<Delete>>)}}

CallValidateGuildConfig ==
    /\ args = NoCall
    /\ \E guild \in ThresholdGuilds :
          /\ args' = [fn |-> "validate_guild_config", guild |-> guild]
          /\ ret' = [errors |-> ValidationErrors(guild),
                     result |-> ValidateGuildConfig(guild).ok]
    /\ UNCHANGED <<engineVars, hostVars>>

NextSpamThresholds == CallValidateGuildConfig \/ Return

SpecSpamThresholds == InitPure /\ [][NextSpamThresholds]_vars

\* The error "in spam config, no spam thresholds are specified".
NoThresholdsError == <<<<"spam", 0>>, "thresholds", "none">>

\* Every threshold of the spam filter is absent.
EveryThresholdAbsent(spam) ==
    \A metric \in {"emoji", "links", "attachments", "spoilers", "mentions", "duplicates"} :
        spam[metric] = None

\* C40: validate_guild_config reports that no spam thresholds are specified
\* exactly for a spam filter in which each of emoji, links, attachments,
\* spoilers, mentions and duplicates is absent; a filter with one threshold
\* set is not rejected for that reason.
C40_NoThresholdsOnlyWhenAllAbsent ==
    args.fn = "validate_guild_config" =>
        (NoThresholdsError \in ret.errors <=> EveryThresholdAbsent(Unwrap(args.guild.spam)))

\* A spam filter whose only threshold is mentions, with actions of its own,
\* is rejected, and the only error is that no thresholds are specified.
C40_MentionsOnlyRejected ==
    /\ args.fn = "validate_guild_config"
    /\ Unwrap(args.guild.spam).mentions = Some(Thr)
    /\ ~EveryThresholdAbsent(Unwrap(args.guild.spam))
    /\ ret.errors = {NoThresholdsError}
    /\ ~ret.result

====
